---- MODULE Spec2Model ----
(***************************************************************************)
(* PixelPrism text-entry editing engine (entry.c) and X11 selection        *)
(* clipboard (clipboard.c).                                                *)
(*                                                                         *)
(* Characters are modelled by their byte codes, a C string by the bytes of *)
(* its heap block: the text buffer `buf` is the whole allocation           *)
(* (Len(buf) = text_cap), the text proper being the bytes before the first *)
(* NUL.  text_len is a separate field, as in the source, and is only       *)
(* resynchronised with the buffer where the source calls ensure_text_len.  *)
(***************************************************************************)
EXTENDS Integers, Sequences, FiniteSets, TLC

(* ------------------------------ bounds -------------------------------- *)
\* longest text typing and pasting build up
MaxLen == 2
\* length of the text the application sets
SetLen == 3
\* theme.undo_depth of the modelled entry (capacity of both history stacks)
UndoDepth == 2
\* most X events waiting in this process's queue
MaxQueue == 2
\* most requests a session has in flight
MaxPending == 2
\* the clock stops at MaxTime milliseconds
MaxTime == 551

(* ------------------------- bytes and C strings ------------------------- *)
NUL == 0
\* an indeterminate byte of a fresh allocation
UNINIT == -1

ENTRY_TEXT == "ENTRY_TEXT"
ENTRY_INT == "ENTRY_INT"
ENTRY_FLOAT == "ENTRY_FLOAT"
ENTRY_HEX == "ENTRY_HEX"

Min(a, b) == IF a < b THEN a ELSE b
Max(a, b) == IF a > b THEN a ELSE b

Fill(n, v) == [i \in 1..n |-> v]

\* v bound to the parameter of F: a local variable assigned once
Let(v, F(_)) == F(v)

\* strlen: index of the first NUL.  Running into an indeterminate byte or
\* off the end of the block is undefined; `oracle` selects the outcome:
\* "crash" (result -1) or "zero" (the byte read happened to be 0).
RECURSIVE scan(_, _, _)
scan(buf, i, oracle) ==
    IF i >= Len(buf) THEN (IF oracle = "zero" THEN i ELSE -1)
    ELSE IF buf[i + 1] = NUL THEN i
    ELSE IF buf[i + 1] = UNINIT THEN (IF oracle = "zero" THEN i ELSE -1)
    ELSE scan(buf, i + 1, oracle)

strlen(buf, oracle) == scan(buf, 0, oracle)

\* the heap block holding a copy of string s
safe_strdup(s) == s \o <<NUL>>

\* memmove(buf + dst, buf + src, n) stays inside the block
MemOK(buf, dst, src, n) ==
    /\ n >= 0
    /\ (n > 0 => (dst >= 0 /\ src >= 0 /\ dst + n <= Len(buf) /\ src + n <= Len(buf)))

memmove(buf, dst, src, n) ==
    [i \in 1..Len(buf) |->
        IF i > dst /\ i <= dst + n THEN buf[i - dst + src] ELSE buf[i]]

\* memcpy(buf + dst, s, Len(s))
memcpy(buf, dst, s) ==
    [i \in 1..Len(buf) |->
        IF i > dst /\ i <= dst + Len(s) THEN s[i - dst] ELSE buf[i]]

\* realloc(buf, n): the old bytes, then indeterminate ones
safe_realloc(buf, n) ==
    IF n <= Len(buf) THEN SubSeq(buf, 1, n)
    ELSE buf \o Fill(n - Len(buf), UNINIT)

(* ------------------------------ ctype ---------------------------------- *)
isprint(c) == c >= 32 /\ c <= 126
isdigit(c) == c >= 48 /\ c <= 57
isxdigit(c) == isdigit(c) \/ (c >= 65 /\ c <= 70) \/ (c >= 97 /\ c <= 102)
isalnum(c) == isdigit(c) \/ (c >= 65 /\ c <= 90) \/ (c >= 97 /\ c <= 122)
toupper(c) == IF c >= 97 /\ c <= 122 THEN c - 32 ELSE c
tolower(c) == IF c >= 65 /\ c <= 90 THEN c + 32 ELSE c

(* --------------------------- entry: state ------------------------------ *)
\* struct MiniEntry, as entry_create leaves it.  The history stacks hold
\* their undo_top / redo_top live snapshots (a snapshot is the copied
\* string).  Instrumentation: `changed` counts the on_change calls,
\* `pushed` the undo_push calls, `evicted` the undo snapshots and `cleared`
\* the redo snapshots undo_push dropped in the current handler, `ub` records
\* that the handler ran into undefined behaviour, `oracle` is the outcome
\* an undefined read has in the current handler.
entry_create(win, kind, max_length, undo_depth, auto_copy_primary, on_change) ==
    [ buf |-> safe_strdup(<<>>), text_len |-> 0, cursor |-> 0,
      sel_anchor |-> 0, sel_active |-> 0, selecting |-> FALSE,
      click_count |-> 0,
      undo_stack |-> <<>>, redo_stack |-> <<>>,
      undo_capacity |-> undo_depth, redo_capacity |-> undo_depth,
      is_focused |-> FALSE, menu_visible |-> FALSE,
      win |-> win, kind |-> kind, max_length |-> max_length,
      hex_uppercase |-> TRUE, auto_copy_primary |-> auto_copy_primary,
      on_change |-> on_change, validation_state |-> 0, validation_flash_start |-> 0,
      changed |-> 0, pushed |-> 0, evicted |-> 0, cleared |-> 0,
      destroyed |-> FALSE, ub |-> FALSE, oracle |-> "crash" ]

text_cap(e) == Len(e.buf)
undo_top(e) == Len(e.undo_stack)
redo_top(e) == Len(e.redo_stack)

\* undefined behaviour met: the handler does not complete
Crash(e) == [e EXCEPT !.ub = TRUE]

\* the string e->text points to (the bytes before the first NUL)
CStr(e) == SubSeq(e.buf, 1, strlen(e.buf, e.oracle))

(* ------------------------ entry: text helpers -------------------------- *)
ensure_text_len(e) ==
    IF e.ub THEN e
    ELSE LET real == strlen(e.buf, e.oracle)
         IN IF real < 0 THEN Crash(e)
            ELSE [e EXCEPT !.text_len = real]

RECURSIVE grow(_, _)
grow(cap, need) ==
    IF cap >= need THEN cap
    ELSE LET c1 == cap + (cap \div 2)
             c2 == IF c1 < 8 THEN 8 ELSE c1
         IN IF c2 > 1073741824 THEN c2 ELSE grow(c2, need)

reserve_text(e, need) ==
    IF e.ub \/ need <= text_cap(e) THEN e
    ELSE LET cap == grow(IF text_cap(e) > 0 THEN text_cap(e) ELSE 1, need)
         IN [e EXCEPT !.buf = safe_realloc(e.buf, cap)]

(* ------------------------------ history ------------------------------- *)
\* undo_push without the loop that frees the redo stack
undo_push_keeps_redo(e) ==
    IF e.ub THEN e
    ELSE LET kept == IF undo_top(e) >= e.undo_capacity
                     THEN SubSeq(e.undo_stack, 2, e.undo_capacity)
                     ELSE e.undo_stack
         IN [e EXCEPT !.undo_stack = Append(kept, CStr(e)),
                      !.pushed = e.pushed + 1]

\* undo_push evicting the newest snapshot instead of the oldest
undo_push_drops_newest(e) ==
    IF e.ub THEN e
    ELSE LET kept == IF undo_top(e) >= e.undo_capacity
                     THEN SubSeq(e.undo_stack, 1, e.undo_capacity - 1)
                     ELSE e.undo_stack
         IN [e EXCEPT !.undo_stack = Append(kept, CStr(e)),
                      !.redo_stack = <<>>,
                      !.pushed = e.pushed + 1,
                      !.cleared = e.cleared + redo_top(e),
                      !.evicted = IF undo_top(e) >= e.undo_capacity
                                  THEN e.evicted + 1 ELSE e.evicted]

undo_push(e) ==
    IF e.ub THEN e
    ELSE IF strlen(e.buf, e.oracle) < 0 THEN Crash(e)
    ELSE IF undo_top(e) >= e.undo_capacity /\ e.undo_capacity < 1 THEN Crash(e)
    ELSE LET kept == IF undo_top(e) >= e.undo_capacity
                     THEN SubSeq(e.undo_stack, 2, e.undo_capacity)
                     ELSE e.undo_stack
         IN [e EXCEPT !.undo_stack = Append(kept, CStr(e)),
                      !.redo_stack = <<>>,
                      !.pushed = e.pushed + 1,
                      !.cleared = e.cleared + redo_top(e),
                      !.evicted = IF undo_top(e) >= e.undo_capacity
                                  THEN e.evicted + 1 ELSE e.evicted]

(* ------------------------------ painting ------------------------------- *)
\* entry_draw -> redraw -> draw_selection / draw_text_and_cursor: the only
\* effect on the editing state is their ensure_text_len.
entry_draw(e) == ensure_text_len(e)

(* ------------------------ selection and editing ------------------------ *)
normalize_sel(e) ==
    Let(ensure_text_len(e), LAMBDA e1 :
        LET clamp(v) == IF v < 0 THEN 0 ELSE IF v > e1.text_len THEN e1.text_len ELSE v
        IN IF e1.ub THEN e1
           ELSE [e1 EXCEPT !.sel_anchor = clamp(e1.sel_anchor),
                           !.sel_active = clamp(e1.sel_active)])

delete_selection(e) ==
    Let(ensure_text_len(e), LAMBDA e1 :
        LET a == Min(e1.sel_anchor, e1.sel_active)
            b == Max(e1.sel_anchor, e1.sel_active)
            n == e1.text_len - Max(e1.sel_anchor, e1.sel_active) + 1
        IN IF e1.ub \/ e1.sel_anchor = e1.sel_active THEN e1
           ELSE IF ~MemOK(e1.buf, a, b, n) THEN Crash(e1)
           ELSE [e1 EXCEPT !.buf = memmove(e1.buf, a, b, n),
                           !.text_len = e1.text_len - (b - a),
                           !.cursor = a,
                           !.sel_anchor = a,
                           !.sel_active = a])

\* validate_char: the normalised character, or -1 when it is rejected
validate_char(e, ch) ==
    CASE e.kind = ENTRY_TEXT ->
            IF isprint(ch) /\ ch # 13 /\ ch # 10 THEN ch ELSE -1
      [] e.kind = ENTRY_INT ->
            IF isdigit(ch) \/ ch = 32 \/ ch = 44 THEN ch ELSE -1
      [] e.kind = ENTRY_FLOAT ->
            IF ch = 46 \/ ch = 44 \/ ch = 32 \/ isdigit(ch) THEN ch ELSE -1
      [] e.kind = ENTRY_HEX ->
            IF ch = 35 THEN 35
            ELSE IF isxdigit(ch)
                 THEN (IF e.hex_uppercase THEN toupper(ch) ELSE tolower(ch))
                 ELSE -1
      [] OTHER -> -1

\* ensure_cursor_visible only measures text and moves scroll_x
ensure_cursor_visible(e) == e

(* ------------------------- X server, clipboard ------------------------- *)
None == "None"
\* a window of another application
Ext == "Ext"
\* the windows of this process
Windows == {"W1", "W2"}

SELECTION_CLIPBOARD == "SELECTION_CLIPBOARD"
SELECTION_PRIMARY == "SELECTION_PRIMARY"
SelectionTypes == {SELECTION_CLIPBOARD, SELECTION_PRIMARY}

\* atoms
CLIPBOARD_PROPERTY_ATOM_NAME == "GENERIC_CLIPBOARD"
UTF8_STRING == "UTF8_STRING"
XA_STRING == "STRING"
XA_ATOM == "ATOM"
TARGETS == "TARGETS"
INCR == "INCR"

MAX_PENDING_REQUESTS == 8

\* the null pointer where a string is expected (no C string holds UNINIT)
NULL == <<UNINIT>>

\* clipboard_create: calloc'd context
clipboard_create ==
    [ data |-> [t \in SelectionTypes |-> [text |-> NULL, owner_window |-> None]],
      requests |-> [i \in 1..MAX_PENDING_REQUESTS |->
                      [window |-> None, callback |-> None, user_data |-> <<None, 0>>,
                       type |-> SELECTION_CLIPBOARD, property |-> None,
                       active |-> FALSE]],
      alive |-> TRUE ]

\* what the model keeps of the X server: the owner of each selection, the
\* events queued for this process, the conversions other applications have
\* been asked for, the transfer property on each of our windows, and what
\* the window of the other application has last received: the property
\* written on it and the property named by the SelectionNotify sent to it
NoProp == [type |-> None, data |-> NULL]
NoReply == [prop |-> NoProp, notify |-> "none"]

XServerInit ==
    [ owner |-> [t \in SelectionTypes |-> None],
      evq |-> <<>>,
      convs |-> <<>>,
      prop |-> [w \in Windows |-> NoProp],
      ext |-> NoReply,
      notify_windows |-> FALSE ]

SelectionClear(win, sel) ==
    [type |-> "SelectionClear", window |-> win, selection |-> sel,
     target |-> None, property |-> None, owner |-> None]
SelectionNotify(requestor, sel, target, property) ==
    [type |-> "SelectionNotify", window |-> requestor, selection |-> sel,
     target |-> target, property |-> property, owner |-> None]
SelectionRequest(owner, requestor, sel, target, property) ==
    [type |-> "SelectionRequest", window |-> requestor, selection |-> sel,
     target |-> target, property |-> property, owner |-> owner]

\* XSetSelectionOwner: the server sends the previous owner SelectionClear
\* when the selection passes to another client or to None; when it passes
\* between two windows of one client it sends none, unless notify_windows
\* is set: then every window that loses the selection to another is told
XSetSelectionOwner(x, sel, win) ==
    LET old == x.owner[sel]
    IN [x EXCEPT !.owner[sel] = win,
                 !.evq = IF old \in Windows
                            /\ (win \notin Windows \/ (x.notify_windows /\ win # old))
                         THEN Append(@, SelectionClear(old, sel)) ELSE @]

XGetSelectionOwner(x, sel) == x.owner[sel]

\* XConvertSelection: without an owner the server refuses at once; an owner
\* in this process is sent SelectionRequest; another application is left to
\* answer when and how it likes
XConvertSelection(x, sel, target, property, requestor) ==
    LET owner == x.owner[sel]
    IN IF owner = None
       THEN [x EXCEPT !.evq = Append(@, SelectionNotify(requestor, sel, target, None))]
       ELSE IF owner \in Windows
       THEN [x EXCEPT !.evq = Append(@, SelectionRequest(owner, requestor, sel, target, property))]
       ELSE [x EXCEPT !.convs = Append(@, [requestor |-> requestor, selection |-> sel,
                                            target |-> target, property |-> property])]

XChangeProperty(x, win, property, type, data) ==
    IF win \in Windows /\ property = CLIPBOARD_PROPERTY_ATOM_NAME
    THEN [x EXCEPT !.prop[win] = [type |-> type, data |-> data]]
    ELSE IF win = Ext THEN [x EXCEPT !.ext.prop = [type |-> type, data |-> data]]
    ELSE x

XDeleteProperty(x, win, property) ==
    IF win \in Windows /\ property = CLIPBOARD_PROPERTY_ATOM_NAME
    THEN [x EXCEPT !.prop[win] = NoProp]
    ELSE x

\* XGetWindowProperty: a property that does not exist reads as type None
XGetWindowProperty(x, win, property) ==
    IF win \in Windows /\ property = CLIPBOARD_PROPERTY_ATOM_NAME
    THEN x.prop[win] ELSE NoProp

(* the clipboard functions work on a world w = [e, ctx, x, calls]: calls is
   the list of callback invocations made so far by the current handler, each
   with the request slot it was made for (0: for none) *)
Call(w, callback, text, user_data, slot) ==
    [w EXCEPT !.calls = Append(@, [callback |-> callback, text |-> text,
                                    user_data |-> user_data, slot |-> slot])]

get_data_for_selection(sel) ==
    IF sel = SELECTION_CLIPBOARD THEN SELECTION_CLIPBOARD
    ELSE IF sel = SELECTION_PRIMARY THEN SELECTION_PRIMARY
    ELSE None

\* clipboard_set_text dropping the text without giving the selection up
clipboard_set_text_keeps_selection(w, win, text, type) ==
    IF text # NULL
    THEN [w EXCEPT !.ctx.data[type] = [text |-> text, owner_window |-> win],
                   !.x = XSetSelectionOwner(w.x, type, win)]
    ELSE [w EXCEPT !.ctx.data[type] = [text |-> NULL, owner_window |-> None]]

clipboard_set_text(w, win, text, type) ==
    IF text # NULL
    THEN [w EXCEPT !.ctx.data[type] = [text |-> text, owner_window |-> win],
                   !.x = XSetSelectionOwner(w.x, type, win)]
    ELSE [w EXCEPT !.ctx.data[type] = [text |-> NULL, owner_window |-> None],
                   !.x = XSetSelectionOwner(w.x, type, None)]

\* the slot search taking the first slot when none is free
FreeSlot_takes_first(ctx) ==
    IF \E i \in 1..MAX_PENDING_REQUESTS : ~ctx.requests[i].active
    THEN CHOOSE i \in 1..MAX_PENDING_REQUESTS :
             /\ ~ctx.requests[i].active
             /\ \A j \in 1..(i - 1) : ctx.requests[j].active
    ELSE 1

\* index of the first free request slot, 0 when the table is full
FreeSlot(ctx) ==
    IF \E i \in 1..MAX_PENDING_REQUESTS : ~ctx.requests[i].active
    THEN CHOOSE i \in 1..MAX_PENDING_REQUESTS :
            /\ ~ctx.requests[i].active
            /\ \A j \in 1..(i - 1) : ctx.requests[j].active
    ELSE 0

\* clipboard_request_text without the test for a selection nobody owns
clipboard_request_text_asks_anyway(w, win, callback, user_data, type) ==
    IF callback = None THEN w
    ELSE IF FreeSlot(w.ctx) = 0 THEN Call(w, callback, NULL, user_data, 0)
    ELSE [w EXCEPT
            !.ctx.requests[FreeSlot(w.ctx)] =
                [window |-> win, callback |-> callback, user_data |-> user_data,
                 type |-> type, property |-> CLIPBOARD_PROPERTY_ATOM_NAME,
                 active |-> TRUE],
            !.x = XConvertSelection(w.x, type, UTF8_STRING,
                                    CLIPBOARD_PROPERTY_ATOM_NAME, win)]

clipboard_request_text(w, win, callback, user_data, type) ==
    LET owner == XGetSelectionOwner(w.x, type)
        data == w.ctx.data[type]
        req == FreeSlot(w.ctx)
    IN IF callback = None THEN w
       ELSE IF owner = None THEN Call(w, callback, NULL, user_data, 0)
       ELSE IF owner = data.owner_window /\ data.text # NULL
            THEN Call(w, callback, data.text, user_data, 0)
       ELSE IF req = 0 THEN Call(w, callback, NULL, user_data, 0)
       ELSE [w EXCEPT
               !.ctx.requests[req] =
                   [window |-> win, callback |-> callback, user_data |-> user_data,
                    type |-> type, property |-> CLIPBOARD_PROPERTY_ATOM_NAME,
                    active |-> TRUE],
               !.x = XConvertSelection(w.x, type, UTF8_STRING,
                                       CLIPBOARD_PROPERTY_ATOM_NAME, win)]

\* index of the first active request of (win, property), 0 when there is none
find_request(ctx, win, property) ==
    IF \E i \in 1..MAX_PENDING_REQUESTS :
          ctx.requests[i].active /\ ctx.requests[i].window = win
          /\ ctx.requests[i].property = property
    THEN CHOOSE i \in 1..MAX_PENDING_REQUESTS :
            /\ ctx.requests[i].active /\ ctx.requests[i].window = win
            /\ ctx.requests[i].property = property
            /\ \A j \in 1..(i - 1) :
                 ~(ctx.requests[j].active /\ ctx.requests[j].window = win
                   /\ ctx.requests[j].property = property)
    ELSE 0

\* XSendEvent of a SelectionNotify to the requestor
send_selection_notify(x, req, property) ==
    IF req.window \in Windows
    THEN [x EXCEPT !.evq = Append(@, SelectionNotify(req.window, req.selection,
                                                     req.target, property))]
    ELSE IF req.window = Ext THEN [x EXCEPT !.ext.notify = property]
    ELSE x

\* the three targets handle_selection_request announces
targets(ctx) == <<TARGETS, UTF8_STRING, XA_STRING>>

\* handle_selection_request serving its own window as it serves any other
handle_selection_request_serves_self(w, req) ==
    LET sel == get_data_for_selection(req.selection)
        data == IF sel = None THEN [text |-> NULL, owner_window |-> None]
                ELSE w.ctx.data[sel]
    IN IF sel = None \/ data.text = NULL
       THEN [w EXCEPT !.x = send_selection_notify(w.x, req, None)]
       ELSE IF req.target = TARGETS
       THEN [w EXCEPT !.x = send_selection_notify(
                 XChangeProperty(w.x, req.window, req.property, XA_ATOM, targets(w.ctx)),
                 req, req.property)]
       ELSE IF req.target = UTF8_STRING \/ req.target = XA_STRING
       THEN [w EXCEPT !.x = send_selection_notify(
                 XChangeProperty(w.x, req.window, req.property, req.target, data.text),
                 req, req.property)]
       ELSE [w EXCEPT !.x = send_selection_notify(w.x, req, None)]

handle_selection_request(w, req) ==
    LET sel == get_data_for_selection(req.selection)
        data == IF sel = None THEN [text |-> NULL, owner_window |-> None]
                ELSE w.ctx.data[sel]
    IN IF sel = None \/ data.text = NULL \/ req.window = data.owner_window
       THEN [w EXCEPT !.x = send_selection_notify(w.x, req, None)]
       ELSE IF req.target = TARGETS
       THEN [w EXCEPT !.x = send_selection_notify(
                 XChangeProperty(w.x, req.window, req.property, XA_ATOM, targets(w.ctx)),
                 req, req.property)]
       ELSE IF req.target = UTF8_STRING \/ req.target = XA_STRING
       THEN [w EXCEPT !.x = send_selection_notify(
                 XChangeProperty(w.x, req.window, req.property, req.target, data.text),
                 req, req.property)]
       ELSE [w EXCEPT !.x = send_selection_notify(w.x, req, None)]

\* Resolve without the `req->active = 0` that follows the callback
Resolve_keeps_active(w, i, text) ==
    Call(w, w.ctx.requests[i].callback, text, w.ctx.requests[i].user_data, i)

\* resolve request i: invoke its callback, then mark it inactive
Resolve(w, i, text) ==
    LET r == w.ctx.requests[i]
    IN [Call(w, r.callback, text, r.user_data, i) EXCEPT !.ctx.requests[i].active = FALSE]

\* handle_selection_notify handing over whatever the property holds
handle_selection_notify_any_type(w, sev, fail) ==
    Let(find_request(w.ctx, sev.window, sev.property), LAMBDA req :
        IF req = 0 THEN w
        ELSE IF sev.property = None \/ fail # 0 THEN Resolve(w, req, NULL)
        ELSE [Resolve(w, req, XGetWindowProperty(w.x, sev.window, sev.property).data)
                 EXCEPT !.x = XDeleteProperty(w.x, sev.window, sev.property)])

\* fail: which XGetWindowProperty call fails (0: none)
handle_selection_notify(w, sev, fail) ==
    LET req == find_request(w.ctx, sev.window, sev.property)
        p == XGetWindowProperty(w.x, sev.window, sev.property)
    IN IF req = 0 THEN w
       ELSE IF sev.property = None THEN Resolve(w, req, NULL)
       ELSE IF fail = 1 THEN Resolve(w, req, NULL)
       ELSE IF p.type = INCR
       THEN [Resolve(w, req, NULL) EXCEPT
                !.x = XDeleteProperty(w.x, sev.window, sev.property)]
       ELSE IF fail = 2 THEN Resolve(w, req, NULL)
       ELSE [Resolve(w, req, IF p.type = UTF8_STRING \/ p.type = XA_STRING
                              THEN p.data ELSE NULL) EXCEPT
                !.x = XDeleteProperty(w.x, sev.window, sev.property)]

\* handle_selection_clear dropping both records
handle_selection_clear_both(w, cev) ==
    IF get_data_for_selection(cev.selection) = None THEN w
    ELSE [w EXCEPT !.ctx.data = [t \in SelectionTypes |->
                                    [text |-> NULL, owner_window |-> None]]]

handle_selection_clear(w, cev) ==
    LET sel == get_data_for_selection(cev.selection)
    IN IF sel = None THEN w
       ELSE [w EXCEPT !.ctx.data[sel] = [text |-> NULL, owner_window |-> None]]

\* clipboard_destroy: every active request's callback gets NULL, then the
\* context is freed
RECURSIVE destroy_loop(_, _)
destroy_loop(w, i) ==
    IF i > MAX_PENDING_REQUESTS THEN w
    ELSE LET r == w.ctx.requests[i]
         IN destroy_loop(IF r.active /\ r.callback # None
                         THEN Call(w, r.callback, NULL, r.user_data, i) ELSE w,
                         i + 1)

clipboard_destroy(w) == [destroy_loop(w, 1) EXCEPT !.ctx.alive = FALSE]

(* ------------------- entry: clipboard and editing ---------------------- *)
\* lift an operation on the entry to the world
OnEntry(w, e2) == [w EXCEPT !.e = e2]

\* safe_strndup(e->text + a, len): the bytes from offset a to the next NUL,
\* at most len of them
safe_strndup(e, a, len) ==
    Let(Min(scan(e.buf, a, e.oracle) - a, len), LAMBDA n : SubSeq(e.buf, a + 1, a + n))

is_word_char(c) == isalnum(c) \/ c = 95

RECURSIVE word_start(_, _)
word_start(e, s) ==
    IF s > 0 /\ is_word_char(e.buf[s]) THEN word_start(e, s - 1) ELSE s

RECURSIVE word_end(_, _)
word_end(e, t) ==
    IF t < e.text_len /\ is_word_char(e.buf[t + 1]) THEN word_end(e, t + 1) ELSE t

\* update_selection_clipboard: mirror the selection to PRIMARY
update_selection_clipboard(w) ==
    Let(w.e, LAMBDA e :
        LET a == Min(e.sel_anchor, e.sel_active)
            b == Max(e.sel_anchor, e.sel_active)
        IN IF e.ub \/ ~e.auto_copy_primary THEN w
           ELSE IF e.sel_anchor = e.sel_active
           THEN clipboard_set_text(w, e.win, NULL, SELECTION_PRIMARY)
           ELSE IF scan(e.buf, a, e.oracle) < 0 THEN OnEntry(w, Crash(e))
           ELSE clipboard_set_text(w, e.win, safe_strndup(e, a, b - a), SELECTION_PRIMARY))

select_word(w, pos) ==
    Let(ensure_text_len(w.e), LAMBDA e1 :
    Let(IF pos < 0 THEN 0 ELSE IF pos > e1.text_len THEN e1.text_len ELSE pos, LAMBDA p :
        IF e1.ub THEN OnEntry(w, e1)
        ELSE update_selection_clipboard(OnEntry(w,
                 ensure_cursor_visible([e1 EXCEPT !.sel_anchor = word_start(e1, p),
                                                  !.sel_active = word_end(e1, p),
                                                  !.cursor = word_end(e1, p)])))))

select_all_text(w) ==
    Let(ensure_text_len(w.e), LAMBDA e1 :
        IF e1.ub THEN OnEntry(w, e1)
        ELSE update_selection_clipboard(OnEntry(w,
                 ensure_cursor_visible([e1 EXCEPT !.sel_anchor = 0,
                                                  !.sel_active = e1.text_len,
                                                  !.cursor = e1.text_len]))))

\* copy_selection handing the text to PRIMARY alone
copy_selection_primary_only(w, cut) ==
    IF w.e.ub \/ w.e.sel_anchor = w.e.sel_active THEN w
    ELSE clipboard_set_text(w, w.e.win,
                            safe_strndup(w.e, Min(w.e.sel_anchor, w.e.sel_active),
                                         Max(w.e.sel_anchor, w.e.sel_active)
                                             - Min(w.e.sel_anchor, w.e.sel_active)),
                            SELECTION_PRIMARY)

copy_selection(w, cut) ==
    Let(w.e, LAMBDA e :
        LET a == Min(e.sel_anchor, e.sel_active)
            b == Max(e.sel_anchor, e.sel_active)
        IN IF e.ub \/ e.sel_anchor = e.sel_active THEN w
           ELSE IF scan(e.buf, a, e.oracle) < 0 THEN OnEntry(w, Crash(e))
           ELSE
    Let(safe_strndup(e, a, b - a), LAMBDA text :
    Let(clipboard_set_text(clipboard_set_text(w, e.win, text, SELECTION_CLIPBOARD),
                           e.win, text, SELECTION_PRIMARY), LAMBDA w2 :
        IF cut THEN OnEntry(w2, entry_draw(delete_selection(undo_push(e))))
        ELSE w2)))

\* the filter loop of filtered_paste from data[i] on: the characters that
\* pass validate_char, stopping once base_len + o reaches max_length
RECURSIVE filter_loop(_, _, _, _, _)
filter_loop(e, data, i, out, base_len) ==
    IF i > Len(data) THEN out
    ELSE LET v == validate_char(e, data[i])
             out2 == Append(out, v)
         IN IF v = -1 THEN filter_loop(e, data, i + 1, out, base_len)
            ELSE IF e.max_length > 0 /\ base_len + Len(out2) >= e.max_length THEN out2
            ELSE filter_loop(e, data, i + 1, out2, base_len)

filtered_paste(e, data) ==
    LET a == Min(e.sel_anchor, e.sel_active)
        b == Max(e.sel_anchor, e.sel_active)
        base_len == IF e.sel_anchor # e.sel_active
                    THEN Max(e.text_len - (b - a), 0)
                    ELSE e.text_len
    IN IF e.ub \/ data = NULL \/ Len(data) = 0 THEN e
       ELSE
    Let(filter_loop(e, data, 1, <<>>, base_len), LAMBDA out :
    Let(Len(out), LAMBDA o :
        IF o = 0 THEN e
        ELSE
    Let(undo_push(e), LAMBDA e1 :
    Let(IF e1.sel_anchor # e1.sel_active THEN delete_selection(e1) ELSE e1, LAMBDA e2 :
    Let(IF e2.text_len + o + 1 > text_cap(e2)
        THEN [e2 EXCEPT !.buf = safe_realloc(e2.buf, e2.text_len + o + 1)]
        ELSE e2, LAMBDA e3 :
    Let(e3.text_len - e3.cursor + 1, LAMBDA n :
        IF e3.ub THEN e3
        ELSE IF ~MemOK(e3.buf, e3.cursor + o, e3.cursor, n)
                \/ e3.cursor < 0 \/ e3.cursor + o > text_cap(e3) THEN Crash(e3)
        ELSE entry_draw(ensure_cursor_visible(
                 [e3 EXCEPT !.buf = memcpy(memmove(e3.buf, e3.cursor + o, e3.cursor, n),
                                           e3.cursor, out),
                            !.text_len = e3.text_len + o,
                            !.cursor = e3.cursor + o]))))))))

\* entry_destroy: the entry's memory is freed; the requests it has pending
\* at the clipboard keep its address as user_data
entry_destroy(w) == OnEntry(w, [w.e EXCEPT !.destroyed = TRUE])

\* with text, the callback works on the entry user_data points to, which is
\* undefined once the entry has been freed
paste_callback(e, text) ==
    IF text = NULL THEN e
    ELSE IF e.destroyed THEN Crash(e)
    ELSE filtered_paste(e, text)

\* the callbacks the clipboard has invoked are run at once: paste_callback
\* on the entry; a client's callback is only recorded (in done)
RECURSIVE run_callbacks(_)
run_callbacks(w) ==
    IF w.calls = <<>> THEN w
    ELSE LET c == Head(w.calls)
         IN run_callbacks([w EXCEPT
                !.calls = Tail(@),
                !.done = Append(@, c),
                !.e = IF c.callback = "paste_callback"
                      THEN paste_callback(w.e, c.text) ELSE w.e])

paste_request(w, which) ==
    IF w.e.ub THEN w
    ELSE run_callbacks(clipboard_request_text(w, w.e.win, "paste_callback", <<"entry", 1>>,
                           IF which = SELECTION_CLIPBOARD
                           THEN SELECTION_CLIPBOARD ELSE SELECTION_PRIMARY))

entry_set_text(e, t) ==
    LET s == IF t = NULL THEN <<>> ELSE t
    IN entry_draw([e EXCEPT !.buf = safe_strdup(s),
                            !.text_len = Len(s),
                            !.cursor = Len(s),
                            !.sel_anchor = Len(s),
                            !.sel_active = Len(s)])

\* insert_char taking its history snapshot before it validates
insert_char_pushes_first(e, ch) ==
    Let(undo_push(ensure_text_len(e)), LAMBDA e1 :
        IF e1.ub \/ validate_char(e1, ch) = -1 THEN e1
        ELSE entry_draw(IF e1.sel_anchor # e1.sel_active THEN delete_selection(e1) ELSE e1))

insert_char(e, ch) ==
    Let(ensure_text_len(e), LAMBDA e1 :
    Let(validate_char(e1, ch), LAMBDA out :
        IF e1.ub \/ out = -1 THEN e1
        ELSE
    Let(undo_push(e1), LAMBDA e2 :
    Let(IF e2.sel_anchor # e2.sel_active THEN delete_selection(e2) ELSE e2, LAMBDA e3 :
        IF e3.ub THEN e3
        ELSE IF e3.max_length > 0 /\ e3.text_len >= e3.max_length THEN e3
        ELSE
    Let(reserve_text(e3, e3.text_len + 2), LAMBDA e4 :
    Let(e4.text_len - e4.cursor + 1, LAMBDA n :
        IF ~MemOK(e4.buf, e4.cursor + 1, e4.cursor, n)
           \/ e4.cursor < 0 \/ e4.cursor >= text_cap(e4) THEN Crash(e4)
        ELSE entry_draw(ensure_cursor_visible(
                 [e4 EXCEPT !.buf = memcpy(memmove(e4.buf, e4.cursor + 1, e4.cursor, n),
                                           e4.cursor, <<out>>),
                            !.text_len = e4.text_len + 1,
                            !.cursor = e4.cursor + 1]))))))))

do_backspace(e) ==
    Let(ensure_text_len(e), LAMBDA e1 :
        IF e1.ub THEN e1
        ELSE IF e1.sel_anchor # e1.sel_active
        THEN entry_draw(delete_selection(undo_push(e1)))
        ELSE IF e1.cursor > 0
        THEN Let(undo_push(e1), LAMBDA e2 :
             Let(e2.text_len - e2.cursor + 1, LAMBDA n :
                 IF e2.ub THEN e2
                 ELSE IF ~MemOK(e2.buf, e2.cursor - 1, e2.cursor, n) THEN Crash(e2)
                 ELSE entry_draw(ensure_cursor_visible(
                          [e2 EXCEPT !.buf = memmove(e2.buf, e2.cursor - 1, e2.cursor, n),
                                     !.text_len = e2.text_len - 1,
                                     !.cursor = e2.cursor - 1]))))
        ELSE e1)

do_delete(e) ==
    Let(ensure_text_len(e), LAMBDA e1 :
        IF e1.ub THEN e1
        ELSE IF e1.sel_anchor # e1.sel_active
        THEN entry_draw(delete_selection(undo_push(e1)))
        ELSE IF e1.cursor < e1.text_len
        THEN Let(undo_push(e1), LAMBDA e2 :
             Let(e2.text_len - e2.cursor, LAMBDA n :
                 IF e2.ub THEN e2
                 ELSE IF ~MemOK(e2.buf, e2.cursor, e2.cursor + 1, n) THEN Crash(e2)
                 ELSE entry_draw(ensure_cursor_visible(
                          [e2 EXCEPT !.buf = memmove(e2.buf, e2.cursor, e2.cursor + 1, n),
                                     !.text_len = e2.text_len - 1]))))
        ELSE e1)

(* --------------------- the application: colour state ------------------- *)
\* RGB8 as <<r, g, b>>; the application's globals: current_rgb8 and
\* updating_from_callback.  Instrumentation: `shown` is the colour the other
\* entries and the swatch were last given, `propagated` counts the
\* format_and_update_entries calls that went through in the current handler
AppInit ==
    [ current_rgb8 |-> <<0, 0, 0>>, updating_from_callback |-> FALSE,
      shown |-> <<0, 0, 0>>, propagated |-> 0, now |-> 1 ]

HexChar(n) == IF n < 10 THEN 48 + n ELSE 55 + n
HexVal(c) == IF isdigit(c) THEN c - 48 ELSE IF c >= 97 THEN c - 87 ELSE c - 55

\* snprintf(out_hex, 8, "#%02X%02X%02X", r, g, b)
rgb8_to_hex(in) ==
    << 35, HexChar(in[1] \div 16), HexChar(in[1] % 16),
           HexChar(in[2] \div 16), HexChar(in[2] % 16),
           HexChar(in[3] \div 16), HexChar(in[3] % 16) >>

format_hex(rgb8, uppercase) ==
    IF uppercase THEN rgb8_to_hex(rgb8)
    ELSE [i \in 1..7 |-> tolower(rgb8_to_hex(rgb8)[i])]

\* one %02x conversion of sscanf at offset i of s: <<value, next offset>>,
\* value -1 when no hex digit is there (the texts of a hex entry hold no
\* white space, sign or 0x prefix for the conversion to skip)
scan_02x(s, i) ==
    IF i > Len(s) \/ ~isxdigit(s[i]) THEN <<-1, i>>
    ELSE IF i + 1 <= Len(s) /\ isxdigit(s[i + 1])
    THEN <<16 * HexVal(s[i]) + HexVal(s[i + 1]), i + 2>>
    ELSE <<HexVal(s[i]), i + 1>>

\* hex_to_rgb8: <<r, g, b>>, or <<>> when sscanf matches fewer than three
hex_to_rgb8(hex) ==
    Let(scan_02x(hex, IF hex # <<>> /\ hex[1] = 35 THEN 2 ELSE 1), LAMBDA r :
    Let(scan_02x(hex, r[2]), LAMBDA g :
    Let(scan_02x(hex, g[2]), LAMBDA b :
        IF r[1] < 0 \/ g[1] < 0 \/ b[1] < 0 THEN <<>> ELSE <<r[1], g[1], b[1]>>)))

parse_hex(text) == hex_to_rgb8(SelectSeq(text, LAMBDA c : c # 32 /\ c # 44))

\* entry_set_text_no_draw
entry_set_text_no_draw(e, t) ==
    Let(IF t = NULL THEN <<>> ELSE t, LAMBDA s :
        [e EXCEPT !.buf = safe_strdup(s),
                  !.text_len = Len(s),
                  !.cursor = Len(s),
                  !.sel_anchor = Len(s),
                  !.sel_active = Len(s)])

\* get_time_ms: the wall clock in milliseconds, kept in app.now
get_time_ms(w) == w.app.now

entry_set_validation_state(e, state) == entry_draw([e EXCEPT !.validation_state = state])
entry_set_validation_flash_start(e, timestamp) ==
    [e EXCEPT !.validation_flash_start = timestamp]

\* validate_entry_flash_valid clearing the red state without starting the
\* green flash
validate_entry_clear_only(w) ==
    IF w.e.validation_state = 1 THEN OnEntry(w, entry_set_validation_state(w.e, 0)) ELSE w

validate_entry_flash_valid(w) ==
    Let(IF w.e.validation_state = 1 THEN entry_set_validation_state(w.e, 0) ELSE w.e,
        LAMBDA e1 :
            OnEntry(w, entry_set_validation_flash_start(entry_set_validation_state(e1, 2),
                                                        get_time_ms(w))))

\* refresh_entry_from_current, for the hex entry
refresh_entry_from_current(w) ==
    OnEntry(w, entry_set_text(w.e, format_hex(w.app.current_rgb8, w.e.hex_uppercase)))

\* the red flash without the restore of the text
validate_entry_flash_only(w) ==
    OnEntry(w, entry_set_validation_flash_start(entry_set_validation_state(w.e, 1),
                                                get_time_ms(w)))

validate_entry_flash_invalid_and_restore(w) ==
    refresh_entry_from_current(
        OnEntry(w, entry_set_validation_flash_start(entry_set_validation_state(w.e, 1),
                                                    get_time_ms(w))))

\* the flashes last FLASH_INVALID_MS and FLASH_VALID_MS
FLASH_INVALID_MS == 150
FLASH_VALID_MS == 500

\* update_validation_timers shortening the green flash to the red one's time
update_validation_timers_never_green(w) ==
    IF w.e.validation_state = 1 /\ w.e.validation_flash_start > 0
       /\ get_time_ms(w) - w.e.validation_flash_start >= FLASH_INVALID_MS
    THEN OnEntry(w, entry_set_validation_state(w.e, 0))
    ELSE w

\* update_validation_timers, for the entry of the model
update_validation_timers(w) ==
    IF w.e.validation_state = 1 /\ w.e.validation_flash_start > 0
    THEN IF get_time_ms(w) - w.e.validation_flash_start >= FLASH_INVALID_MS
         THEN OnEntry(w, entry_set_validation_state(w.e, 0)) ELSE w
    ELSE IF w.e.validation_state = 2 /\ w.e.validation_flash_start > 0
    THEN IF get_time_ms(w) - w.e.validation_flash_start >= FLASH_VALID_MS
         THEN OnEntry(w, entry_set_validation_state(w.e, 0)) ELSE w
    ELSE w

\* format_and_update_entries: the other entries and the swatch are given the
\* colour (shown); auto_copy_color does nothing under the default theme
\* (auto-copy = false)
format_and_update_entries(w, rgb8) ==
    IF rgb8 = w.app.current_rgb8 THEN w
    ELSE [w EXCEPT !.app.current_rgb8 = rgb8,
                   !.app.shown = rgb8,
                   !.app.propagated = @ + 1,
                   !.e = entry_draw(entry_set_text_no_draw(@,
                             format_hex(rgb8, @.hex_uppercase)))]

\* entry_hex_changed without the comparison with the current colour
entry_hex_changed_no_compare(w) ==
    IF w.app.updating_from_callback \/ w.e.ub THEN w
    ELSE IF parse_hex(CStr(w.e)) = <<>> THEN validate_entry_flash_invalid_and_restore(w)
    ELSE format_and_update_entries(validate_entry_flash_valid(w),
                                   parse_hex(CStr(w.e)))

\* entry_hex_changed flashing valid also for the colour already committed
entry_hex_changed_flashes_unchanged(w) ==
    IF w.app.updating_from_callback \/ w.e.ub THEN w
    ELSE IF parse_hex(CStr(w.e)) = <<>> THEN validate_entry_flash_invalid_and_restore(w)
    ELSE Let(validate_entry_flash_valid(w), LAMBDA w2 :
             IF parse_hex(CStr(w.e)) # w.app.current_rgb8
             THEN format_and_update_entries(w2, parse_hex(CStr(w.e))) ELSE w2)

\* entry_hex_changed: the on_change callback of the hex entry
entry_hex_changed(w) ==
    IF w.app.updating_from_callback THEN w
    ELSE
    Let(ensure_text_len(w.e), LAMBDA l :
        IF l.ub THEN OnEntry(w, l)
        ELSE IF CStr(l) = <<>> THEN validate_entry_flash_invalid_and_restore(OnEntry(w, l))
        ELSE
    Let(parse_hex(CStr(l)), LAMBDA rgb8 :
        IF rgb8 = <<>> THEN validate_entry_flash_invalid_and_restore(OnEntry(w, l))
        ELSE IF rgb8 # w.app.current_rgb8
        THEN format_and_update_entries(validate_entry_flash_valid(OnEntry(w, l)), rgb8)
        ELSE OnEntry(w, l)))

\* if (e->on_change) e->on_change(e, e->user_data)
on_change(w) ==
    IF w.e.ub \/ w.e.on_change = None THEN w
    ELSE entry_hex_changed(OnEntry(w, [w.e EXCEPT !.changed = @ + 1]))

(* ---------------------------- undo / redo ------------------------------ *)
\* do_undo notifying the application before it looks at the stack
do_undo_notifies_first(w) ==
    IF w.e.ub \/ undo_top(w.e) > 0 THEN w ELSE on_change(w)

\* do_undo leaving the snapshot it restores on the undo stack
do_undo_keeps_snapshot(w) ==
    Let(w.e, LAMBDA e :
        IF e.ub \/ undo_top(e) = 0 THEN w
        ELSE IF strlen(e.buf, e.oracle) < 0 \/ redo_top(e) >= e.redo_capacity
        THEN OnEntry(w, Crash(e))
        ELSE on_change(OnEntry(w,
                 [e EXCEPT !.redo_stack = Append(e.redo_stack, CStr(e)),
                           !.buf = safe_strdup(e.undo_stack[undo_top(e)]),
                           !.text_len = Len(e.undo_stack[undo_top(e)]),
                           !.cursor = Min(e.cursor, Len(e.undo_stack[undo_top(e)])),
                           !.sel_anchor = Min(e.cursor, Len(e.undo_stack[undo_top(e)])),
                           !.sel_active = Min(e.cursor, Len(e.undo_stack[undo_top(e)]))])))

do_undo(w) ==
    Let(w.e, LAMBDA e :
        IF e.ub \/ undo_top(e) = 0 THEN w
        ELSE IF strlen(e.buf, e.oracle) < 0 \/ redo_top(e) >= e.redo_capacity
        THEN OnEntry(w, Crash(e))
        ELSE
    Let(e.undo_stack[undo_top(e)], LAMBDA snap :
    Let(Min(e.cursor, Len(snap)), LAMBDA cur :
        on_change(OnEntry(w,
            [e EXCEPT !.redo_stack = Append(e.redo_stack, CStr(e)),
                      !.undo_stack = SubSeq(e.undo_stack, 1, undo_top(e) - 1),
                      !.buf = safe_strdup(snap),
                      !.text_len = Len(snap),
                      !.cursor = cur,
                      !.sel_anchor = cur,
                      !.sel_active = cur])))))

do_redo(w) ==
    Let(w.e, LAMBDA e :
        IF e.ub \/ redo_top(e) = 0 THEN w
        ELSE IF strlen(e.buf, e.oracle) < 0 \/ undo_top(e) >= e.undo_capacity
        THEN OnEntry(w, Crash(e))
        ELSE
    Let(e.redo_stack[redo_top(e)], LAMBDA snap :
    Let(Min(e.cursor, Len(snap)), LAMBDA cur :
        on_change(OnEntry(w,
            [e EXCEPT !.undo_stack = Append(e.undo_stack, CStr(e)),
                      !.redo_stack = SubSeq(e.redo_stack, 1, redo_top(e) - 1),
                      !.buf = safe_strdup(snap),
                      !.text_len = Len(snap),
                      !.cursor = cur,
                      !.sel_anchor = cur,
                      !.sel_active = cur])))))

\* draw the entry of the world
Drawn(w) == OnEntry(w, entry_draw(ensure_cursor_visible(w.e)))

(* --------------------------- entry: events ----------------------------- *)
\* XEvent as the handlers read it.  x is in glyph widths from the left edge
\* of the text, y (context menu) in items from the top; dbl says that the
\* press came within the double-click time and distance of the previous one
XEvent(type, window, button, x, y, dbl, ks, ctrl, shift, ch) ==
    [type |-> type, window |-> window, button |-> button, x |-> x, y |-> y,
     dbl |-> dbl, ks |-> ks, ctrl |-> ctrl, shift |-> shift, ch |-> ch]

XKeyEvent(ks, ctrl, shift, ch) ==
    XEvent("KeyPress", "W1", 0, 0, 0, FALSE, ks, ctrl, shift, ch)
XButtonEvent(type, window, button, x, y, dbl) ==
    XEvent(type, window, button, x, y, dbl, None, FALSE, FALSE, 0)
XMotionEvent(window, x) ==
    XEvent("MotionNotify", window, 0, x, 0, FALSE, None, FALSE, FALSE, 0)
XFocusChangeEvent(type, window) ==
    XEvent(type, window, 0, 0, 0, FALSE, None, FALSE, FALSE, 0)

\* the context menu's window and its items
MenuWin == "menu"
MenuItems == <<"cut", "copy", "paste", "select_all", "clear", "undo", "redo">>
menu_item_count == 7

\* x_to_index with every glyph one unit wide: the first index whose right
\* edge lies beyond x
x_to_index(e, x) ==
    Let(ensure_text_len(e), LAMBDA l :
        IF x < 0 THEN 0 ELSE IF x >= l.text_len THEN l.text_len ELSE x + 1)

menu_show(e) == [e EXCEPT !.menu_visible = TRUE]
menu_hide(e) == [e EXCEPT !.menu_visible = FALSE]

\* menu_handle_event: <<act, menu still visible>>
menu_handle_event(e, ev, can) ==
    IF ~e.menu_visible THEN <<-1, FALSE>>
    ELSE IF ev.type = "ButtonPress" /\ ev.window = MenuWin
            /\ (ev.y < 0 \/ ev.y >= menu_item_count)
    THEN <<-1, FALSE>>
    ELSE IF ev.type = "ButtonRelease" /\ ev.window = MenuWin /\ ev.button = 1
            /\ ev.y >= 0 /\ ev.y < menu_item_count /\ can[ev.y + 1]
    THEN <<ev.y, FALSE>>
    ELSE <<-1, TRUE>>

key_shortcuts(w, kev) ==
    Let(w.e, LAMBDA e :
    Let(ensure_text_len(e), LAMBDA l :
        LET nav(c, a, b) == OnEntry(w, IF l.ub THEN l
                                       ELSE entry_draw(ensure_cursor_visible(
                                            [l EXCEPT !.cursor = c,
                                                      !.sel_anchor = a,
                                                      !.sel_active = b])))
            left == IF l.cursor > 0 THEN l.cursor - 1 ELSE l.cursor
            right == IF l.cursor < l.text_len THEN l.cursor + 1 ELSE l.cursor
        IN IF kev.ks = "Return" THEN on_change(w)
           ELSE IF kev.ctrl /\ kev.ks = "c" THEN copy_selection(w, FALSE)
           ELSE IF kev.ctrl /\ kev.ks = "x" THEN copy_selection(w, TRUE)
           ELSE IF kev.ctrl /\ kev.ks = "v" THEN paste_request(w, SELECTION_CLIPBOARD)
           ELSE IF kev.ctrl /\ kev.ks = "a" THEN nav(l.text_len, 0, l.text_len)
           ELSE IF kev.ctrl /\ kev.ks = "z"
           THEN Drawn(do_undo(w))
           ELSE IF kev.ctrl /\ kev.ks = "y"
           THEN Drawn(do_redo(w))
           ELSE IF kev.ks = "Left"
           THEN nav(left, IF kev.shift THEN l.sel_anchor ELSE left,
                    IF kev.shift /\ l.cursor = 0 THEN l.sel_active ELSE left)
           ELSE IF kev.ks = "Right"
           THEN nav(right, IF kev.shift THEN l.sel_anchor ELSE right,
                    IF kev.shift /\ l.cursor >= l.text_len THEN l.sel_active ELSE right)
           ELSE IF kev.ks = "Home"
           THEN nav(0, IF kev.shift THEN l.sel_anchor ELSE 0, 0)
           ELSE IF kev.ks = "End"
           THEN nav(l.text_len, IF kev.shift THEN l.sel_anchor ELSE l.text_len, l.text_len)
           ELSE IF kev.ks = "BackSpace" THEN OnEntry(w, do_backspace(e))
           ELSE IF kev.ks = "Delete" THEN OnEntry(w, do_delete(e))
           ELSE IF kev.ch >= 32 /\ kev.ch < 127 THEN OnEntry(w, insert_char(e, kev.ch))
           ELSE w))

\* the switch (act) of entry_handle_event: the picked context-menu item
menu_action(w, act, can) ==
    IF act = 0 THEN copy_selection(w, TRUE)
    ELSE IF act = 1 THEN copy_selection(w, FALSE)
    ELSE IF act = 2 /\ can[3] THEN paste_request(w, SELECTION_CLIPBOARD)
    ELSE IF act = 3 /\ can[4] THEN select_all_text(w)
    ELSE IF act = 4 /\ can[5]
    THEN Let(undo_push(w.e), LAMBDA p :
             OnEntry(w, IF p.ub THEN p
                        ELSE entry_draw(ensure_cursor_visible(
                             [p EXCEPT !.buf = safe_strdup(<<>>),
                                       !.text_len = 0,
                                       !.cursor = 0,
                                       !.sel_anchor = 0,
                                       !.sel_active = 0,
                                       !.is_focused = TRUE]))))
    ELSE IF act = 5 /\ can[6] THEN do_undo(w)
    ELSE IF act = 6 /\ can[7] THEN do_redo(w)
    ELSE w

\* ButtonPress on the entry's window
button_press(w, ev) ==
    Let(ensure_text_len([w.e EXCEPT !.is_focused = TRUE]), LAMBDA l :
    Let(x_to_index(l, ev.x), LAMBDA click_pos :
    Let(IF ev.dbl THEN l.click_count + 1 ELSE 1, LAMBDA count :
        LET shown(w2) == OnEntry(w2, entry_draw(menu_hide(ensure_cursor_visible(w2.e))))
            sel0(w2, n) == OnEntry(w2, [w2.e EXCEPT !.selecting = FALSE, !.click_count = n])
            at(en) == [en EXCEPT !.cursor = click_pos,
                                 !.sel_anchor = click_pos,
                                 !.sel_active = click_pos]
            c == [l EXCEPT !.click_count = count]
        IN IF ev.button = 3 THEN OnEntry(w, menu_show(w.e))
           ELSE IF l.ub THEN OnEntry(w, l)
           ELSE IF ev.button = 1
           THEN shown(IF count = 1
                      THEN OnEntry(w, [at(c) EXCEPT !.selecting = TRUE])
                      ELSE IF count = 2
                      THEN sel0(select_word(OnEntry(w, c), click_pos), count)
                      ELSE sel0(select_all_text(OnEntry(w, c)), 0))
           ELSE IF ev.button = 2
           THEN paste_request(shown(OnEntry(w, at(l))), SELECTION_PRIMARY)
           ELSE w)))

\* the part of entry_handle_event after the context menu has had the event
entry_event(w2, ev) ==
    Let(w2.e, LAMBDA e2 :
        IF ev.type = "ButtonPress"
        THEN (IF ev.window = e2.win THEN button_press(w2, ev) ELSE w2)
        ELSE IF ev.type = "ButtonRelease"
        THEN (IF ev.window = e2.win /\ ev.button = 1
              THEN update_selection_clipboard(OnEntry(w2, [e2 EXCEPT !.selecting = FALSE]))
              ELSE w2)
        ELSE IF ev.type = "MotionNotify"
        THEN (IF e2.selecting /\ ev.window = e2.win
              THEN Let(ensure_text_len(e2), LAMBDA l :
                       IF l.ub THEN OnEntry(w2, l)
                       ELSE Let(update_selection_clipboard(OnEntry(w2,
                                    ensure_cursor_visible(normalize_sel(
                                        [e2 EXCEPT !.sel_active = x_to_index(e2, ev.x),
                                                   !.cursor = x_to_index(e2, ev.x)])))),
                                LAMBDA dragged : OnEntry(dragged, entry_draw(dragged.e))))
              ELSE w2)
        ELSE IF ev.type = "KeyPress" /\ e2.is_focused THEN key_shortcuts(w2, ev)
        ELSE IF ev.type = "FocusOut"
        THEN (IF ev.window = e2.win
              THEN Let(on_change(w2), LAMBDA w3 :
                       OnEntry(w3, entry_draw(menu_hide([w3.e EXCEPT !.is_focused = FALSE]))))
              ELSE w2)
        ELSE IF ev.type = "FocusIn"
        THEN (IF ev.window = e2.win
              THEN OnEntry(w2, entry_draw([e2 EXCEPT !.is_focused = TRUE]))
              ELSE w2)
        ELSE w2)

entry_handle_event(w, ev) ==
    Let(w.e, LAMBDA e :
    Let(<< e.sel_anchor # e.sel_active, e.sel_anchor # e.sel_active,
           XGetSelectionOwner(w.x, SELECTION_CLIPBOARD) # None,
           e.text_len > 0, e.text_len > 0,
           undo_top(e) > 0, redo_top(e) > 0 >>, LAMBDA can :
    Let(menu_handle_event(e, ev, can), LAMBDA m :
    Let(OnEntry(w, [e EXCEPT !.menu_visible = m[2]]), LAMBDA w1 :
        IF e.ub THEN w
        ELSE IF e.menu_visible /\ m[1] >= 0
        THEN Let(menu_action(w1, m[1], can), LAMBDA w3 :
                 OnEntry(w3, entry_draw(menu_hide(w3.e))))
        ELSE IF e.menu_visible /\ ev.window = MenuWin THEN w1
        ELSE entry_event(IF e.menu_visible /\ ev.type = "ButtonPress"
                         THEN OnEntry(w1, menu_hide(w1.e)) ELSE w1, ev)))))

\* the key presses of `keys` delivered to the entry one after the other
RECURSIVE type_keys(_, _)
type_keys(w, keys) ==
    IF keys = <<>> THEN w
    ELSE type_keys(entry_handle_event(w, XKeyEvent("char", FALSE, FALSE, Head(keys))),
                   Tail(keys))

\* clipboard_handle_event: fail is the XGetWindowProperty call that fails
clipboard_handle_event(w, ev, fail) ==
    IF ev.type = "SelectionRequest" THEN handle_selection_request(w, ev)
    ELSE IF ev.type = "SelectionNotify" THEN handle_selection_notify(w, ev, fail)
    ELSE IF ev.type = "SelectionClear" THEN handle_selection_clear(w, ev)
    ELSE w

(* ------------------ focus among the entries of the window ------------- *)
\* The main window holds five entries (hsv, hsl, rgbf, rgbi, hex), here 1..5.
\* Of each entry this part keeps is_focused, whether its context menu is
\* visible and whether it holds text; focused_entry is the static pointer
\* of entry.c, 0 for NULL.
entry_count == 5
Entries == 1..entry_count

EntryWin(i) == <<"entry", i>>
MenuWinOf(i) == <<"menu", i>>
MainWin == <<"main", 0>>

FocusInit ==
    [ is_focused |-> [i \in Entries |-> FALSE],
      menu_visible |-> [i \in Entries |-> FALSE],
      has_text |-> [i \in Entries |-> FALSE],
      focused_entry |-> 0 ]

\* the entry's change callback: it leaves the canonical text of a colour
focus_on_change(f, i) == [f EXCEPT !.has_text[i] = TRUE]

entry_focus(f, i, on) ==
    IF on
    THEN [(IF f.focused_entry # 0 /\ f.focused_entry # i
           THEN [f EXCEPT !.is_focused[f.focused_entry] = FALSE] ELSE f)
             EXCEPT !.focused_entry = i, !.is_focused[i] = TRUE]
    ELSE IF f.focused_entry = i
         THEN [focus_on_change(f, i) EXCEPT !.focused_entry = 0, !.is_focused[i] = FALSE]
         ELSE f

\* the focus taken by a click or FocusIn in entry i
take_focus(f, i) ==
    [(IF f.focused_entry # 0 /\ f.focused_entry # i
      THEN entry_focus(f, f.focused_entry, FALSE) ELSE f)
        EXCEPT !.focused_entry = i, !.is_focused[i] = TRUE]

\* the item chosen in the visible menu of entry i, -1 for none; only
\* Select All (3) and Clear (4) are told apart, both enabled by text
focus_menu_act(f, i, ev) ==
    IF ev.type = "ButtonRelease" /\ ev.window = MenuWinOf(i) /\ ev.button = 1
       /\ ev.item \in {3, 4} /\ f.has_text[i]
    THEN ev.item ELSE -1

\* entry_handle_event of entry i, as far as focus goes: <<state, handled>>
focus_handle_event(f, i, ev) ==
    IF f.menu_visible[i] /\ focus_menu_act(f, i, ev) = 4
    THEN <<[f EXCEPT !.has_text[i] = FALSE, !.focused_entry = i,
                     !.is_focused[i] = TRUE, !.menu_visible[i] = FALSE], TRUE>>
    ELSE IF f.menu_visible[i] /\ focus_menu_act(f, i, ev) >= 0
    THEN <<[f EXCEPT !.menu_visible[i] = FALSE], TRUE>>
    ELSE IF f.menu_visible[i] /\ ev.window = MenuWinOf(i)
            /\ ~(ev.type = "ButtonPress" /\ ev.item = -1)
    THEN <<f, TRUE>>
    ELSE
    Let(IF f.menu_visible[i] /\ ev.type = "ButtonPress"
        THEN [f EXCEPT !.menu_visible[i] = FALSE] ELSE f, LAMBDA f1 :
        IF ev.type = "ButtonPress" /\ ev.window = EntryWin(i)
        THEN IF ev.button \in {1, 2}
             THEN <<[take_focus(f1, i) EXCEPT !.menu_visible[i] = FALSE], TRUE>>
             ELSE IF ev.button = 3 THEN <<[f1 EXCEPT !.menu_visible[i] = TRUE], TRUE>>
             ELSE <<f1, TRUE>>
        ELSE IF ev.type = "KeyPress" /\ f1.is_focused[i]
        THEN <<IF ev.item = 0 THEN [f1 EXCEPT !.has_text[i] = TRUE] ELSE f1, TRUE>>
        ELSE IF ev.type = "FocusOut" /\ ev.window = EntryWin(i)
        THEN <<[focus_on_change(f1, i) EXCEPT !.is_focused[i] = FALSE,
                                              !.menu_visible[i] = FALSE], FALSE>>
        ELSE IF ev.type = "FocusIn" /\ ev.window = EntryWin(i)
        THEN <<take_focus(f1, i), FALSE>>
        ELSE <<f1, FALSE>>)

RECURSIVE unfocus_loop(_, _)
unfocus_loop(f, i) ==
    IF i > entry_count THEN f ELSE unfocus_loop(entry_focus(f, i, FALSE), i + 1)

unfocus_all_entries(f) == unfocus_loop(f, 1)

cycle_entry_focus(f, forward) ==
    Let(f.focused_entry - 1, LAMBDA current_index :
        entry_focus(f,
                    1 + (IF current_index = -1
                         THEN (IF forward THEN 0 ELSE entry_count - 1)
                         ELSE IF forward THEN (current_index + 1) % entry_count
                         ELSE (current_index - 1 + entry_count) % entry_count),
                    TRUE))

\* the event handed to each entry in turn: <<state, entry_handled>>
RECURSIVE entries_loop(_, _, _, _)
entries_loop(f, i, ev, handled) ==
    IF i > entry_count THEN <<f, handled>>
    ELSE Let(focus_handle_event(f, i, ev), LAMBDA r :
             entries_loop(r[1], i + 1, ev, handled \/ r[2]))

\* one event of the main loop: the switch on the event type, then the
\* entries, then the unfocus on a button press that no entry handled
main_loop_event(f, ev) ==
    Let(entries_loop(IF ev.type = "KeyPress" /\ ev.item = 1
                     THEN cycle_entry_focus(f, ev.button = 0)
                     ELSE IF ev.type = "FocusOut" /\ ev.window = MainWin
                     THEN unfocus_all_entries(f)
                     ELSE f, 1, ev, FALSE), LAMBDA r :
        IF ev.type = "ButtonPress" /\ ~r[2] THEN unfocus_all_entries(r[1]) ELSE r[1])

(* ---------------------------- state machine ---------------------------- *)
\* e: the entry; ctx: the clipboard context; x: the X server; last: the
\* intent the last handler served and the callbacks it invoked; fired[i]:
\* how often the callback of the request now (or last) in slot i of the
\* table has been invoked
VARIABLES e, app, ctx, x, last, fired, focus
vars == <<e, app, ctx, x, last, fired, focus>>

\* the keys typed and the texts set or received
Keys == {97, 122}
\* the digits typed into the hex entry: 0, a, f
HexKeys == {48, 97, 102}
\* the values of undo-depth in the configuration file
UndoDepths == {0, UndoDepth}
\* the digit typed where the clock runs: a
FlashKeys == {97}
\* the timeout of the main loop's select(), in milliseconds
TickMs == 50
SetTexts == {NULL, Fill(SetLen, 65)}
ExtTexts == {<<97>>, <<122, 97>>}
MaxLengths == {0, 1}

\* the entry's text as a reader of the buffer sees it
Text(en) == SubSeq(en.buf, 1, strlen(en.buf, "zero"))

Pending(c) == {i \in 1..MAX_PENDING_REQUESTS : c.requests[i].active}

\* the state a handler starts from
W0(oracle) ==
    [ e |-> [e EXCEPT !.changed = 0, !.pushed = 0, !.evicted = 0, !.cleared = 0,
                      !.oracle = oracle],
      app |-> [app EXCEPT !.propagated = 0], ctx |-> ctx, x |-> x, calls |-> <<>>, done |-> <<>> ]

\* the callbacks in `done` made for the request in slot i
Count(done, i) == Cardinality({k \in 1..Len(done) : done[k].slot = i})

\* the process runs: it has not died and the clipboard has not been freed
Running == ~e.ub /\ ctx.alive

\* ... and it is in its event loop, the entry not yet destroyed
Alive == Running /\ ~e.destroyed

\* the handler has returned (or the process has died in it)
Commit(op, w2) ==
    /\ last' = [op |-> op, calls |-> w2.done]
    /\ UNCHANGED focus
    /\ IF w2.e.ub
       THEN /\ e' = [e EXCEPT !.ub = TRUE, !.changed = 0, !.pushed = 0, !.evicted = 0,
                              !.cleared = 0]
            /\ app' = [app EXCEPT !.propagated = 0]
            /\ UNCHANGED <<ctx, x, fired>>
       ELSE /\ (op # "hex" /\ w2.e.pushed > 0 /\ Len(Text(w2.e)) > Len(Text(e)))
                    => Len(Text(w2.e)) <= MaxLen
            /\ Len(w2.x.evq) <= MaxQueue
            /\ e' = [w2.e EXCEPT !.oracle = "crash"]
            /\ app' = w2.app
            /\ ctx' = w2.ctx
            /\ x' = w2.x
            /\ fired' = [i \in 1..MAX_PENDING_REQUESTS |->
                            IF w2.ctx.requests[i].active /\ ~ctx.requests[i].active
                            THEN 0 ELSE fired[i] + Count(w2.done, i)]

\* run handler H; where it meets undefined behaviour the build may crash or
\* may read a zero byte and go on
Do(op, H(_)) ==
    Let(H(W0("crash")), LAMBDA wc :
        \E w2 \in (IF wc.e.ub THEN {wc, H(W0("zero"))} ELSE {wc}) : Commit(op, w2))

Init0(en) ==
    /\ e = en
    /\ app = AppInit
    /\ ctx = clipboard_create
    /\ x = XServerInit
    /\ last = [op |-> "init", calls |-> <<>>]
    /\ fired = [i \in 1..MAX_PENDING_REQUESTS |-> 0]
    /\ focus = FocusInit

(* ------------------------- the user at the entry ----------------------- *)
KeyChar ==
    /\ Alive
    /\ \E ch \in Keys :
           Do("char", LAMBDA w : entry_handle_event(w, XKeyEvent("char", FALSE, FALSE, ch)))
\* a hex digit typed into the hex entry, which its max_length bounds
KeyHexDigit ==
    /\ Alive
    /\ \E ch \in HexKeys :
           Do("hex", LAMBDA w : entry_handle_event(w, XKeyEvent("char", FALSE, FALSE, ch)))
KeyBackSpace ==
    /\ Alive
    /\ Do("backspace", LAMBDA w : entry_handle_event(w, XKeyEvent("BackSpace", FALSE, FALSE, 8)))
KeyDelete ==
    /\ Alive
    /\ Do("delete", LAMBDA w : entry_handle_event(w, XKeyEvent("Delete", FALSE, FALSE, 127)))
\* the one digit typed where the clock runs
KeyFlashDigit ==
    /\ Alive
    /\ \E ch \in FlashKeys :
           Do("hex", LAMBDA w : entry_handle_event(w, XKeyEvent("char", FALSE, FALSE, ch)))

\* the select() of the main loop times out: TickMs have passed
Tick ==
    /\ Alive
    /\ app.now + TickMs <= MaxTime
    /\ Do("tick", LAMBDA w : [w EXCEPT !.app.now = @ + TickMs])

\* update_all_entry_blinks at the end of an iteration of the main loop
TimerPass ==
    /\ Alive
    /\ Do("timers", LAMBDA w : update_validation_timers(w))

KeyReturn ==
    /\ Alive
    /\ Do("commit", LAMBDA w : entry_handle_event(w, XKeyEvent("Return", FALSE, FALSE, 13)))
KeyLeft ==
    /\ Alive
    /\ \E shift \in BOOLEAN :
           Do("move", LAMBDA w : entry_handle_event(w, XKeyEvent("Left", FALSE, shift, 0)))
KeyRight ==
    /\ Alive
    /\ \E shift \in BOOLEAN :
           Do("move", LAMBDA w : entry_handle_event(w, XKeyEvent("Right", FALSE, shift, 0)))
KeyHome ==
    /\ Alive
    /\ \E shift \in BOOLEAN :
           Do("move", LAMBDA w : entry_handle_event(w, XKeyEvent("Home", FALSE, shift, 0)))
KeyEnd ==
    /\ Alive
    /\ \E shift \in BOOLEAN :
           Do("move", LAMBDA w : entry_handle_event(w, XKeyEvent("End", FALSE, shift, 0)))
KeyCopy ==
    /\ Alive
    /\ Do("copy", LAMBDA w : entry_handle_event(w, XKeyEvent("c", TRUE, FALSE, 3)))
KeyCut ==
    /\ Alive
    /\ Do("cut", LAMBDA w : entry_handle_event(w, XKeyEvent("x", TRUE, FALSE, 24)))
KeyPaste ==
    /\ Alive
    /\ Cardinality(Pending(ctx)) < MaxPending
    /\ Do("paste", LAMBDA w : entry_handle_event(w, XKeyEvent("v", TRUE, FALSE, 22)))
KeySelectAll ==
    /\ Alive
    /\ Do("select_all", LAMBDA w : entry_handle_event(w, XKeyEvent("a", TRUE, FALSE, 1)))
KeyUndo ==
    /\ Alive
    /\ Do("undo", LAMBDA w : entry_handle_event(w, XKeyEvent("z", TRUE, FALSE, 26)))
KeyRedo ==
    /\ Alive
    /\ Do("redo", LAMBDA w : entry_handle_event(w, XKeyEvent("y", TRUE, FALSE, 25)))

Button1Press ==
    /\ Alive
    /\ \E px \in -1..MaxLen, dbl \in BOOLEAN :
           Do("press", LAMBDA w :
               entry_handle_event(w, XButtonEvent("ButtonPress", "W1", 1, px, 0, dbl)))
Button2Press ==
    /\ Alive
    /\ Cardinality(Pending(ctx)) < MaxPending
    /\ \E px \in -1..MaxLen :
        Do("paste_primary", LAMBDA w :
            entry_handle_event(w, XButtonEvent("ButtonPress", "W1", 2, px, 0, FALSE)))
Button3Press ==
    /\ Alive
    /\ Do("menu_show", LAMBDA w :
           entry_handle_event(w, XButtonEvent("ButtonPress", "W1", 3, 0, 0, FALSE)))
Button1Release ==
    /\ Alive
    /\ Do("release", LAMBDA w :
           entry_handle_event(w, XButtonEvent("ButtonRelease", "W1", 1, 0, 0, FALSE)))
Motion ==
    /\ Alive
    /\ \E px \in -1..MaxLen :
           Do("motion", LAMBDA w : entry_handle_event(w, XMotionEvent("W1", px)))
\* a release over item y of the context menu
MenuRelease ==
    /\ Alive
    /\ e.menu_visible
    /\ Cardinality(Pending(ctx)) < MaxPending
    /\ \E y \in 0..(menu_item_count - 1) :
        Do(MenuItems[y + 1], LAMBDA w :
            entry_handle_event(w, XButtonEvent("ButtonRelease", MenuWin, 1, 0, y, FALSE)))
\* a press on the grabbed pointer outside the menu's items
MenuDismiss ==
    /\ Alive
    /\ e.menu_visible
    /\ Do("menu_dismiss", LAMBDA w :
            entry_handle_event(w, XButtonEvent("ButtonPress", MenuWin, 1, 0, -1, FALSE)))
FocusIn ==
    /\ Alive
    /\ Do("focus_in", LAMBDA w : entry_handle_event(w, XFocusChangeEvent("FocusIn", "W1")))
FocusOut ==
    /\ Alive
    /\ Do("focus_out", LAMBDA w : entry_handle_event(w, XFocusChangeEvent("FocusOut", "W1")))

\* the application sets the entry's text
SetText ==
    /\ Alive
    /\ \E t \in SetTexts :
           Do("set_text", LAMBDA w : OnEntry(w, entry_set_text(w.e, t)))

(* ----------------------- the other applications ------------------------ *)
\* another application takes a selection
ExtClaim ==
    /\ Alive
    /\ \E t \in SelectionTypes :
           /\ x.owner[t] # Ext
           /\ Do("ext_claim", LAMBDA w : [w EXCEPT !.x = XSetSelectionOwner(w.x, t, Ext)])

\* the owner answers the oldest conversion it was asked for: with text, with
\* a refusal, with the INCR marker or with a type that is no text
ExtReply ==
    /\ Alive
    /\ x.convs # <<>>
    /\ \E kind \in {"text", "deny", "INCR", "other"}, t \in ExtTexts :
        /\ kind # "text" => t = CHOOSE u \in ExtTexts : TRUE
        /\ Do("ext_reply", LAMBDA w :
            LET c == Head(w.x.convs)
                x1 == [w.x EXCEPT !.convs = Tail(@)]
                x2 == IF kind = "text"
                      THEN XChangeProperty(x1, c.requestor, c.property, c.target, t)
                      ELSE IF kind = "INCR"
                      THEN XChangeProperty(x1, c.requestor, c.property, INCR, <<>>)
                      ELSE IF kind = "other"
                      THEN XChangeProperty(x1, c.requestor, c.property, XA_ATOM, <<>>)
                      ELSE x1
            IN [w EXCEPT !.x = [x2 EXCEPT !.evq = Append(@,
                    SelectionNotify(c.requestor, c.selection, c.target,
                                    IF kind = "deny" THEN None ELSE c.property))]])

\* the text the owner of each selection holds
OwnerText(type) == IF type = SELECTION_CLIPBOARD THEN <<99>> ELSE <<112>>

\* the owner of a selection answers a conversion it was asked for with the
\* text of that selection; the two selections may have different owners,
\* so the answers come in any order
ExtAnswer ==
    /\ Alive
    /\ \E k \in 1..Len(x.convs) :
        Do("ext_answer", LAMBDA w :
            LET c == w.x.convs[k]
                x1 == [w.x EXCEPT !.convs = SubSeq(@, 1, k - 1) \o SubSeq(@, k + 1, Len(@))]
                x2 == XChangeProperty(x1, c.requestor, c.property, c.target,
                                      OwnerText(c.selection))
            IN [w EXCEPT !.x = [x2 EXCEPT !.evq = Append(@,
                    SelectionNotify(c.requestor, c.selection, c.target, c.property))]])

(* ---------------------------- the event loop --------------------------- *)
\* the next queued X event goes to clipboard_handle_event, then to the entry
HandleEvent ==
    /\ Alive
    /\ x.evq # <<>>
    /\ \E fail \in 0..2 :
        /\ (Head(x.evq).type # "SelectionNotify"
            \/ find_request(ctx, Head(x.evq).window, Head(x.evq).property) = 0) => fail = 0
        /\ Do("event", LAMBDA w :
            LET ev == Head(w.x.evq)
                w1 == [w EXCEPT !.x.evq = Tail(@)]
            IN run_callbacks(clipboard_handle_event(w1, ev, fail)))

(* ------------------- the clients of the clipboard ---------------------- *)
\* the clipboard_set_text calls of the program: the main window (W2)
\* publishes a colour on CLIPBOARD; an entry (W1) publishes text on either
\* selection and gives PRIMARY up
SetCalls ==
    { <<"W2", <<35>>, SELECTION_CLIPBOARD>>, <<"W1", <<97>>, SELECTION_CLIPBOARD>>,
      <<"W1", <<97>>, SELECTION_PRIMARY>>, <<"W1", NULL, SELECTION_PRIMARY>> }

ClipSetText ==
    /\ Alive
    /\ \E c \in SetCalls :
           Do("clip_set", LAMBDA w : clipboard_set_text(w, c[1], c[2], c[3]))

\* the text an entry with window win copies
CopyText(win) == IF win = "W1" THEN <<97>> ELSE <<35>>

\* an entry copies its selected text to one of the selections
CopyIn ==
    /\ Alive
    /\ \E win \in Windows, type \in SelectionTypes :
           Do("clip_set", LAMBDA w : clipboard_set_text(w, win, CopyText(win), type))

\* an entry's window asks for a selection's text
ClipRequest ==
    /\ Alive
    /\ Cardinality(Pending(ctx)) < MaxPending
    /\ \E type \in SelectionTypes :
        Do("request", LAMBDA w :
            run_callbacks(clipboard_request_text(w, "W1", "client_callback",
                                                 <<"client", 0>>, type)))

\* an entry's window asks for a selection's text when nothing it asked for
\* is outstanding
ClipRequestIdle ==
    /\ Alive
    /\ Pending(ctx) = {}
    /\ x.convs = <<>>
    /\ \E type \in SelectionTypes :
        Do("request", LAMBDA w :
            run_callbacks(clipboard_request_text(w, "W1", "client_callback",
                                                 <<"client", 0>>, type)))

\* one window asks for the clipboard again and again, whatever is pending
ClipRequestMany ==
    /\ Alive
    /\ Do("request", LAMBDA w :
           run_callbacks(clipboard_request_text(w, "W1", "client_callback",
                                                <<"client", 0>>, SELECTION_CLIPBOARD)))

\* another application gives a selection up
ExtRelease ==
    /\ Alive
    /\ \E t \in SelectionTypes :
           /\ x.owner[t] = Ext
           /\ Do("ext_release", LAMBDA w : [w EXCEPT !.x = XSetSelectionOwner(w.x, t, None)])

\* another application, its last request answered and the answer taken,
\* asks this process for a selection it owns
ExtRequest ==
    /\ Alive
    /\ \E t \in SelectionTypes, target \in {UTF8_STRING, XA_STRING, TARGETS, "TIMESTAMP"} :
           /\ x.owner[t] \in Windows
           /\ \A k \in 1..Len(x.evq) : x.evq[k].window # Ext
           /\ Do("ext_request", LAMBDA w :
               [w EXCEPT !.x.ext = NoReply,
                         !.x.evq = Append(@,
                   SelectionRequest(w.x.owner[t], Ext, t, target, "EXT_PROPERTY"))])

ClipDestroy ==
    /\ Running
    /\ Do("destroy", LAMBDA w : run_callbacks(clipboard_destroy(w)))

\* the cleanup at the end of main destroys the entry, and later the clipboard
EntryDestroy ==
    /\ Alive
    /\ Do("entry_destroy", LAMBDA w : entry_destroy(w))

(* -------------------- the user among the entries ----------------------- *)
\* an event of the main loop, as far as the focus of the entries goes
FocusEvent(type, window, button, item) ==
    /\ Running
    /\ focus' = main_loop_event(focus, [type |-> type, window |-> window,
                                        button |-> button, item |-> item])
    /\ UNCHANGED <<e, app, ctx, x, last, fired>>

\* while a context menu is visible it grabs the pointer
Grabbed == \E i \in Entries : focus.menu_visible[i]

\* a mouse button pressed on an entry
EntryClick ==
    /\ ~Grabbed
    /\ \E i \in Entries, b \in 1..3 : FocusEvent("ButtonPress", EntryWin(i), b, 0)
\* a mouse button pressed elsewhere in the main window
WindowClick ==
    /\ ~Grabbed
    /\ FocusEvent("ButtonPress", MainWin, 1, 0)
\* an item of the visible context menu chosen
MenuChoose ==
    \E i \in Entries :
        /\ focus.menu_visible[i]
        /\ \E item \in {3, 4} : FocusEvent("ButtonRelease", MenuWinOf(i), 1, item)
\* a button pressed outside the visible context menu
MenuOutside ==
    \E i \in Entries :
        /\ focus.menu_visible[i]
        /\ FocusEvent("ButtonPress", MenuWinOf(i), 1, -1)
\* a character typed
TypeChar == FocusEvent("KeyPress", MainWin, 0, 0)
\* Tab (button 0) or Shift+Tab (button 1)
TabKey == \E shift \in 0..1 : FocusEvent("KeyPress", MainWin, shift, 1)
\* the server tells an entry's window that it has got or lost the focus
EntryFocusIn == \E i \in Entries : FocusEvent("FocusIn", EntryWin(i), 0, 0)
EntryFocusOut == \E i \in Entries : FocusEvent("FocusOut", EntryWin(i), 0, 0)
\* the main window loses the focus
WindowFocusOut == FocusEvent("FocusOut", MainWin, 0, 0)

(* --------------------------- specifications ---------------------------- *)
InitEntry == Init0(entry_create("W1", ENTRY_HEX, 0, UndoDepth, TRUE, "entry_hex_changed"))

\* the keyboard at an entry, with and without a length limit
Init ==
    \E max_length \in MaxLengths :
        Init0(entry_create("W1", ENTRY_HEX, max_length, UndoDepth, TRUE, "entry_hex_changed"))

Next ==
    \/ FocusIn \/ KeyChar \/ KeyBackSpace \/ KeyDelete
    \/ KeyLeft \/ KeyRight \/ KeyHome \/ KeyEnd
    \/ KeySelectAll \/ SetText

Spec == Init /\ [][Next]_vars

\* the keyboard at entries whose undo-depth the configuration file sets, to
\* nothing or to UndoDepth
InitDepth ==
    \E undo_depth \in UndoDepths :
        Init0(entry_create("W1", ENTRY_HEX, 0, undo_depth, TRUE, "entry_hex_changed"))

SpecDepth == InitDepth /\ [][Next]_vars

\* every intent that pushes history, from the keyboard and the context menu
NextHist ==
    \/ FocusIn \/ KeyChar \/ KeyBackSpace \/ KeySelectAll \/ KeyUndo \/ KeyRedo

SpecHist == InitEntry /\ [][NextHist]_vars

\* pasting from another application
NextPaste ==
    \/ FocusIn \/ KeyChar \/ KeyPaste \/ Button2Press
    \/ ExtClaim \/ ExtReply \/ HandleEvent

SpecPaste == InitEntry /\ [][NextPaste]_vars

\* typing and pasting into entries with and without a maximum length
SpecMax == Init /\ [][NextPaste]_vars

\* the hex entry as the program creates it: digits typed, Return, focus
\* gained and lost
max_length_hex == 7

InitHex ==
    Init0(entry_create("W1", ENTRY_HEX, max_length_hex, UndoDepth, TRUE, "entry_hex_changed"))

NextHex ==
    \/ FocusIn \/ KeyHexDigit \/ KeyReturn \/ FocusOut

SpecHex == InitHex /\ [][NextHex]_vars

\* the hex entry with the clock running and the timer pass of the main loop
NextFlash ==
    \/ FocusIn \/ KeyFlashDigit \/ KeyReturn \/ FocusOut \/ Tick \/ TimerPass

SpecFlash == InitHex /\ [][NextFlash]_vars

\* time passes, and the main loop comes round to its timer pass
FairFlash == SpecFlash /\ WF_vars(Tick) /\ WF_vars(TimerPass)

\* pastes in flight when the program shuts down
NextTeardown ==
    \/ FocusIn \/ KeyPaste \/ Button2Press \/ ExtClaim \/ ExtReply \/ HandleEvent
    \/ EntryDestroy \/ ClipDestroy

SpecTeardown == InitEntry /\ [][NextTeardown]_vars

\* the focus among the five entries
NextFocus ==
    \/ EntryClick \/ WindowClick \/ MenuChoose \/ MenuOutside \/ TypeChar \/ TabKey
    \/ EntryFocusIn \/ EntryFocusOut \/ WindowFocusOut

SpecFocus == InitEntry /\ [][NextFocus]_vars

\* two entries copying in turn, with a server that tells every window that
\* loses a selection to another window
InitShared ==
    /\ e = entry_create("W1", ENTRY_HEX, 0, UndoDepth, TRUE, "entry_hex_changed")
    /\ app = AppInit
    /\ ctx = clipboard_create
    /\ x = [XServerInit EXCEPT !.notify_windows = TRUE]
    /\ last = [op |-> "init", calls |-> <<>>]
    /\ fired = [i \in 1..MAX_PENDING_REQUESTS |-> 0]
    /\ focus = FocusInit

NextShared ==
    \/ CopyIn \/ ExtClaim \/ ClipRequest \/ HandleEvent

SpecShared == InitShared /\ [][NextShared]_vars

\* the mouse at an entry
NextMouse ==
    \/ Button1Press \/ Button1Release \/ Motion \/ KeyChar \/ KeyCopy
    \/ HandleEvent

SpecMouse == InitEntry /\ [][NextMouse]_vars

\* requests for the selections of other applications, their answers, and
\* the end of the clipboard
NextClip ==
    \/ ClipRequest \/ ExtClaim \/ ExtRelease \/ ExtReply \/ HandleEvent
    \/ ClipDestroy

SpecClip == InitEntry /\ [][NextClip]_vars

\* requests for both selections in flight, answered in any order
NextCorr ==
    \/ ClipRequest \/ ExtClaim \/ ExtAnswer \/ HandleEvent

SpecCorr == InitEntry /\ [][NextCorr]_vars

\* selecting with the mouse while another application takes the selections
NextMirror ==
    \/ Button1Press \/ Button1Release \/ Motion \/ KeyChar \/ ExtClaim \/ HandleEvent

SpecMirror == InitEntry /\ [][NextMirror]_vars

\* pasting into a text that was set, shortened and selected from
NextSplice ==
    \/ FocusIn \/ SetText \/ KeyBackSpace \/ KeyHome \/ KeyPaste
    \/ ExtClaim \/ ExtReply \/ HandleEvent

SpecSplice == InitEntry /\ [][NextSplice]_vars

\* cutting from a text that was set, shortened and selected from
NextCut ==
    \/ FocusIn \/ SetText \/ KeyBackSpace \/ KeyHome \/ KeySelectAll \/ KeyCut

SpecCut == InitEntry /\ [][NextCut]_vars

\* owning and losing the selections while requesting them
NextOwn ==
    \/ ClipSetText \/ ClipRequest \/ ExtClaim \/ HandleEvent

SpecOwn == InitEntry /\ [][NextOwn]_vars

\* serving the selections to other applications
NextServe ==
    \/ ClipSetText \/ ClipRequestIdle \/ ExtClaim \/ ExtRequest \/ HandleEvent

SpecServe == InitEntry /\ [][NextServe]_vars

\* one window requesting until the table of pending requests is full
NextFull ==
    \/ ClipRequestMany \/ ExtClaim \/ ExtReply \/ HandleEvent

SpecFull == InitEntry /\ [][NextFull]_vars

(* ------------------------------- claims -------------------------------- *)
\* C1: after every operation on the entry both selection offsets lie within
\* the text: 0 <= sel_anchor <= text_len and 0 <= sel_active <= text_len
C1_SelectionBounds ==
    Alive => /\ 0 <= e.sel_anchor /\ e.sel_anchor <= e.text_len
             /\ 0 <= e.sel_active /\ e.sel_active <= e.text_len

\* C2: after every operation on the entry 0 <= cursor <= text_len
C2_CursorBound ==
    Alive => (0 <= e.cursor /\ e.cursor <= e.text_len)

\* the X event the event loop handles next is a SelectionNotify that names
\* no property (the owner refused) for a window with a pending request
DenialDue ==
    /\ x.evq # <<>>
    /\ Head(x.evq).type = "SelectionNotify"
    /\ Head(x.evq).property = None
    /\ \E i \in Pending(ctx) : ctx.requests[i].window = Head(x.evq).window

\* C3: every pending request is resolved exactly once whichever path
\* resolves it; in particular, when the event loop handles a SelectionNotify
\* signalling denial for a window with a pending request, a request of that
\* window gets its callback with no data and its table entry becomes inactive
C3_DenialResolves ==
    [][(DenialDue /\ last'.op = "event" /\ Alive')
        => \E i \in Pending(ctx) :
              /\ ctx.requests[i].window = Head(x.evq).window
              /\ ~ctx'.requests[i].active
              /\ \E k \in 1..Len(last'.calls) :
                    last'.calls[k].slot = i /\ last'.calls[k].text = NULL]_vars

\* C4: the callback of a table entry is invoked at most once per allocation,
\* and an entry goes from active to inactive only in the step that invokes
\* its callback, which it does once in that step
C4_AtMostOnce ==
    /\ \A i \in 1..MAX_PENDING_REQUESTS : fired[i] <= 1
    /\ \A i \in 1..MAX_PENDING_REQUESTS : (ctx.alive /\ fired[i] = 1) => ~ctx.requests[i].active

C4_InactiveWithCall ==
    [][\A i \in 1..MAX_PENDING_REQUESTS :
          (ctx.requests[i].active /\ ~ctx'.requests[i].active)
             => Count(last'.calls, i) = 1]_vars

C5_OnePerChannel ==
    \A i, j \in Pending(ctx) :
        (ctx.requests[i].window = ctx.requests[j].window
         /\ ctx.requests[i].property = ctx.requests[j].property) => i = j

\* the text one undo would leave, were Ctrl+Z pressed in this state
UndoText == Text(do_undo(W0("crash")).e)

\* C6 (history round-trip): whenever a handler has pushed the text S it found
\* onto the undo stack and mutated the buffer, an undo performed next leaves
\* the entry's text equal to S.
C6_RoundTrip ==
    /\ [][(Alive' /\ e'.pushed >= 1) => e'.undo_stack[undo_top(e')] = Text(e)]_vars
    /\ []((Alive /\ e.pushed >= 1) => UndoText = e.undo_stack[undo_top(e)])

\* C7 (redo invalidation): after a handler that pushed onto the undo stack
\* (an accepted character or any other history-pushing edit), also one that
\* follows an undo, the redo stack is empty and a redo is a no-op: it changes
\* neither text nor stacks nor anything else, and notifies nobody.
C7_RedoInvalidated ==
    (Alive /\ e.pushed >= 1)
        => /\ redo_top(e) = 0
           /\ do_redo(W0("crash")) = W0("crash")

\* an edit has discarded the snapshots that undos had moved to the redo stack
C7_Witness == Alive /\ last.op = "char" /\ e.pushed >= 1 /\ e.cleared >= 1

\* C8 (history bound): the undo stack never holds more than undo_depth
\* snapshots; a push leaves the most recent undo_depth snapshots of the old
\* stack followed by the text pushed, in push order; and an undo that takes
\* effect consumes one snapshot, so no more than undo_depth in a row do.
C8_HistoryBound ==
    /\ [](Alive => undo_top(e) <= e.undo_capacity)
    /\ [][(Alive' /\ e'.pushed = 1) =>
            LET all == Append(e.undo_stack, Text(e))
            IN e'.undo_stack =
                   SubSeq(all, Max(1, Len(all) - e.undo_capacity + 1), Len(all))]_vars
    /\ [][(Alive' /\ last'.op = "undo" /\ e'.changed >= 1) =>
            e'.undo_stack = SubSeq(e.undo_stack, 1, undo_top(e) - 1)]_vars

\* a push onto a full stack has evicted the oldest snapshot
C8_Witness ==
    Alive /\ e.pushed = 1 /\ e.evicted >= 1 /\ undo_top(e) = e.undo_capacity

\* C9 (loopback): in every reachable state, a request for a selection that a
\* window of this process owns calls the callback at once with the text held
\* for that selection, takes no entry of the request table and sends no
\* ConvertSelection.
C9_Loopback ==
    \A type \in SelectionTypes :
        (Alive /\ x.owner[type] \in Windows)
            => Let(clipboard_request_text(W0("crash"), "W1", "client_callback",
                                          <<"client", 0>>, type), LAMBDA w2 :
                   /\ Len(w2.calls) = 1
                   /\ w2.calls[1].text = ctx.data[type].text
                   /\ w2.calls[1].text # NULL
                   /\ w2.ctx = ctx
                   /\ w2.x = x)

\* C10 (table full): when all 8 entries of the request table are active, a
\* further request for a selection that another application owns calls the
\* callback at once with no data, sends no ConvertSelection and leaves the
\* 8 entries as they are.
C10_TableFull ==
    \A type \in SelectionTypes :
        (Alive /\ Cardinality(Pending(ctx)) = MAX_PENDING_REQUESTS /\ x.owner[type] = Ext)
            => Let(clipboard_request_text(W0("crash"), "W2", "client_callback",
                                          <<"client", 0>>, type), LAMBDA w2 :
                   /\ Len(w2.calls) = 1
                   /\ w2.calls[1].text = NULL
                   /\ w2.calls[1].callback = "client_callback"
                   /\ w2.ctx.requests = ctx.requests
                   /\ w2.x = x)

\* a ninth request has been refused while eight are pending
C10_Witness ==
    /\ Alive
    /\ Cardinality(Pending(ctx)) = MAX_PENDING_REQUESTS
    /\ x.owner[SELECTION_CLIPBOARD] = Ext
    /\ last.op = "request"
    /\ Len(last.calls) = 1
    /\ last.calls[1].text = NULL

\* C11 (no owner): in every reachable state, a request for a selection that
\* has no owner at the server calls the callback at once with no data, takes
\* no entry of the request table and sends no ConvertSelection.
C11_NoOwner ==
    \A type \in SelectionTypes :
        (Alive /\ x.owner[type] = None)
            => Let(clipboard_request_text(W0("crash"), "W1", "client_callback",
                                          <<"client", 0>>, type), LAMBDA w2 :
                   /\ Len(w2.calls) = 1
                   /\ w2.calls[1].text = NULL
                   /\ w2.calls[1].callback = "client_callback"
                   /\ w2.ctx = ctx
                   /\ w2.x = x)

\* a request has been refused at once because nobody owns either selection,
\* while an earlier request is still pending
C11_Witness ==
    /\ Alive
    /\ \A type \in SelectionTypes : x.owner[type] = None
    /\ last.op = "request"
    /\ Len(last.calls) = 1
    /\ last.calls[1].text = NULL
    /\ Pending(ctx) # {}

\* C12 (copy): Ctrl+C in a focused entry with a non-empty selection makes the
\* text between min(anchor, active) and max(anchor, active) the owned text of
\* both selections, with the entry's window as their owner, and leaves text,
\* cursor, selection and both stacks as they were; with an empty selection it
\* changes nothing, the two selections included.
C12_Copy ==
    [][(last'.op = "copy" /\ Alive /\ e.is_focused) =>
        /\ Alive'
        /\ Text(e') = Text(e)
        /\ e'.cursor = e.cursor
        /\ e'.sel_anchor = e.sel_anchor
        /\ e'.sel_active = e.sel_active
        /\ e'.undo_stack = e.undo_stack
        /\ e'.redo_stack = e.redo_stack
        /\ IF e.sel_anchor = e.sel_active
           THEN ctx' = ctx /\ x' = x
           ELSE \A type \in SelectionTypes :
                    /\ ctx'.data[type].text =
                           SubSeq(Text(e), Min(e.sel_anchor, e.sel_active) + 1,
                                  Min(Max(e.sel_anchor, e.sel_active), Len(Text(e))))
                    /\ ctx'.data[type].owner_window = e.win
                    /\ x'.owner[type] = e.win]_vars

\* a selection of part of the text has been copied
C12_Witness ==
    /\ Alive
    /\ last.op = "copy"
    /\ e.is_focused
    /\ e.sel_anchor # e.sel_active
    /\ Max(e.sel_anchor, e.sel_active) - Min(e.sel_anchor, e.sel_active) < e.text_len
    /\ ctx.data[SELECTION_CLIPBOARD].text # NULL

\* C13 (maximum length): in an entry with max_length > 0 whose text is no
\* longer than max_length, neither a typed character nor the resolution of a
\* paste leaves a text longer than max_length.
C13_MaxLength ==
    [][(Alive /\ Alive' /\ e.max_length > 0 /\ Len(Text(e)) <= e.max_length)
            => Len(Text(e')) <= e.max_length]_vars

C15_InvalidCommit ==
    [][(/\ \/ last'.op = "commit" /\ e.is_focused
           \/ last'.op = "focus_out"
        /\ Alive /\ Alive'
        /\ parse_hex(Text(e)) = <<>>)
            => /\ e'.validation_state = 1
               /\ Text(e') = format_hex(app.current_rgb8, e.hex_uppercase)
               /\ app'.current_rgb8 = app.current_rgb8
               /\ app'.shown = app.shown
               /\ app'.propagated = 0]_vars

\* the loss of focus has committed a text that does not parse, and the
\* canonical text has replaced it
C15_Witness ==
    /\ Alive
    /\ last.op = "focus_out"
    /\ e.changed = 1
    /\ e.validation_state = 1
    /\ undo_top(e) > 0
    /\ Text(e) = format_hex(app.current_rgb8, e.hex_uppercase)

\* C16 (hex scenario): f, f, 0, 0, a, a typed into the empty, focused hex
\* entry leave "#FF00AA" in the buffer, and Enter then parses it without
\* FlashInvalid.
C16_HexScenario ==
    (Alive /\ e.is_focused /\ ~e.menu_visible /\ Text(e) = <<>> /\ e.hex_uppercase)
        => Let(type_keys(W0("crash"), <<102, 102, 48, 48, 97, 97>>), LAMBDA w6 :
               /\ Text(w6.e) = <<35, 70, 70, 48, 48, 65, 65>>
               /\ entry_handle_event(w6, XKeyEvent("Return", FALSE, FALSE, 13))
                      .e.validation_state # 1)

\* C17 (empty history): Ctrl+Z with an empty undo stack, and Ctrl+Y with an
\* empty redo stack, change nothing: text, cursor, selection and both stacks
\* stay as they are and the change callback is not called.
C17_EmptyHistoryNoop ==
    [][(/\ \/ last'.op = "undo" /\ undo_top(e) = 0
           \/ last'.op = "redo" /\ redo_top(e) = 0
        /\ Alive /\ Alive')
            => /\ Text(e') = Text(e)
               /\ e'.cursor = e.cursor
               /\ e'.sel_anchor = e.sel_anchor
               /\ e'.sel_active = e.sel_active
               /\ e'.undo_stack = e.undo_stack
               /\ e'.redo_stack = e.redo_stack
               /\ e'.changed = 0
               /\ e'.validation_state = e.validation_state
               /\ app'.current_rgb8 = app.current_rgb8]_vars

\* Ctrl+Z has been pressed in a focused entry that holds text and has nothing
\* to undo
C17_Witness ==
    /\ Alive
    /\ last.op = "undo"
    /\ e.is_focused
    /\ e.changed = 0
    /\ undo_top(e) = 0
    /\ Text(e) # <<>>

\* C18 (teardown): when what owns pending requests is destroyed, each of its
\* still active requests is resolved with no data by that teardown:
\* clipboard_destroy calls the callback of every active request with no
\* data, and entry_destroy does so for the requests of its entry, which are
\* then no longer active.
C18_Teardown ==
    /\ [][(last'.op = "destroy" /\ Running) =>
            \A i \in Pending(ctx) :
                \E k \in 1..Len(last'.calls) :
                    last'.calls[k].slot = i /\ last'.calls[k].text = NULL]_vars
    /\ [][(last'.op = "entry_destroy" /\ Alive) =>
            \A i \in Pending(ctx) :
                ctx.requests[i].callback = "paste_callback"
                    => /\ ~ctx'.requests[i].active
                       /\ \E k \in 1..Len(last'.calls) :
                              last'.calls[k].slot = i /\ last'.calls[k].text = NULL]_vars

\* C19 (single focus): in every reachable state at most one entry has
\* is_focused set.
C19_SingleFocus ==
    Cardinality({i \in Entries : focus.is_focused[i]}) <= 1

\* C20 (shared slot consistency): with a server that sends SelectionClear to
\* the window that loses a selection whenever another window takes it, once
\* no event is queued any more, a selection owned by a window of this
\* process has the text that window last passed to clipboard_set_text as
\* its owned text.
C20_SharedSlot ==
    \A type \in SelectionTypes :
        (Alive /\ x.notify_windows /\ x.evq = <<>> /\ x.owner[type] \in Windows)
            => ctx.data[type].text = CopyText(x.owner[type])

\* C21 (slot correlation): a callback invoked for a pending request with
\* text receives the text of the selection that request asked for, in
\* whatever order the answers to the requests in flight arrive.
C21_SlotCorrelation ==
    last.op = "event" =>
        \A k \in 1..Len(last.calls) :
            (last.calls[k].slot > 0 /\ last.calls[k].text # NULL)
                => last.calls[k].text = OwnerText(ctx.requests[last.calls[k].slot].type)

\* C22: clipboard_set_text with absent text never takes a selection away
\* from another application: no step of this process turns a selection
\* owned by another application into one nobody owns.
C22_ForeignOwnerKept ==
    [][\A type \in SelectionTypes :
          (x.owner[type] = Ext /\ last'.op # "ext_release") => x'.owner[type] # None]_vars

\* the typed character ch passes validation and, with no selection to
\* delete, is turned away by the max-length check
MaxLengthRejects(ch) ==
    /\ Alive
    /\ validate_char(e, ch) # -1
    /\ e.sel_anchor = e.sel_active
    /\ e.max_length > 0
    /\ Len(Text(e)) >= e.max_length

\* C23 (insert ordering): a typed character rejected by the max-length
\* check leaves the text, the undo stack and the redo stack unchanged.
C23_InsertOrdering ==
    \A ch \in Keys :
        MaxLengthRejects(ch) =>
            Let(insert_char(W0("crash").e, ch), LAMBDA e2 :
                /\ Text(e2) = Text(e)
                /\ e2.undo_stack = e.undo_stack
                /\ e2.redo_stack = e.redo_stack)

\* C24 (rejected input): a typed character the entry's kind does not accept
\* leaves text, cursor, selection, undo stack, redo stack and validation
\* state unchanged, with or without an active selection.
C24_RejectedInput ==
    \A ch \in Keys :
        (Alive /\ e.is_focused /\ validate_char(e, ch) = -1) =>
            Let(type_keys(W0("crash"), <<ch>>).e, LAMBDA e2 :
                /\ ~e2.ub
                /\ Text(e2) = Text(e)
                /\ e2.cursor = e.cursor
                /\ e2.sel_anchor = e.sel_anchor
                /\ e2.sel_active = e.sel_active
                /\ e2.undo_stack = e.undo_stack
                /\ e2.redo_stack = e.redo_stack
                /\ e2.validation_state = e.validation_state)

\* a character has just been rejected while part of the text was selected
C24_Witness ==
    /\ Alive
    /\ last.op = "char"
    /\ e.is_focused
    /\ e.pushed = 0
    /\ e.sel_anchor # e.sel_active
    /\ Len(Text(e)) > 0

\* C25 (undo/redo effect): a successful undo (redo) sets the text to the top
\* snapshot of the undo (redo) stack, pushes the previous text onto the redo
\* (undo) stack, clamps the cursor to the new length, collapses the
\* selection to the cursor and fires the change notification exactly once.
C25_UndoRedoEffect ==
    [][(Alive /\ Alive' /\ e.is_focused) =>
          /\ (last'.op = "undo" /\ undo_top(e) > 0) =>
                /\ Text(e') = e.undo_stack[undo_top(e)]
                /\ e'.undo_stack = SubSeq(e.undo_stack, 1, undo_top(e) - 1)
                /\ e'.redo_stack = Append(e.redo_stack, Text(e))
                /\ e'.cursor = Min(e.cursor, Len(Text(e')))
                /\ e'.sel_anchor = e'.cursor /\ e'.sel_active = e'.cursor
                /\ e'.changed = 1
          /\ (last'.op = "redo" /\ redo_top(e) > 0) =>
                /\ Text(e') = e.redo_stack[redo_top(e)]
                /\ e'.redo_stack = SubSeq(e.redo_stack, 1, redo_top(e) - 1)
                /\ e'.undo_stack = Append(e.undo_stack, Text(e))
                /\ e'.cursor = Min(e.cursor, Len(Text(e')))
                /\ e'.sel_anchor = e'.cursor /\ e'.sel_active = e'.cursor
                /\ e'.changed = 1]_vars

\* the characters of data the entry's kind accepts, normalised, in order
RECURSIVE Survivors(_, _)
Survivors(en, data) ==
    IF data = <<>> THEN <<>>
    ELSE IF validate_char(en, Head(data)) = -1 THEN Survivors(en, Tail(data))
    ELSE <<validate_char(en, Head(data))>> \o Survivors(en, Tail(data))

\* the texts a paste resolves with: no data, text the hex entry rejects
\* entirely, and the texts of ExtTexts
PasteTexts == ExtTexts \cup {NULL, <<122>>}

\* C26 (paste resolution): a paste that resolves with text of which at least
\* one character survives the filter pushes exactly one snapshot of the
\* pre-paste text, removes the selection, splices the survivors at the
\* cursor and leaves the cursor right after them; a paste that resolves with
\* no data, or of which nothing survives, changes neither text, cursor,
\* selection nor history.
C26_PasteResolution ==
    \A t \in PasteTexts :
        (Alive /\ e.max_length = 0) =>
            Let(paste_callback(W0("crash").e, t), LAMBDA e2 :
            Let(IF t = NULL THEN <<>> ELSE Survivors(e, t), LAMBDA f :
            Let(IF e.sel_anchor # e.sel_active
                THEN Min(e.sel_anchor, e.sel_active) ELSE e.cursor, LAMBDA a :
            Let(IF e.sel_anchor # e.sel_active
                THEN Max(e.sel_anchor, e.sel_active) ELSE e.cursor, LAMBDA b :
                IF f = <<>>
                THEN /\ ~e2.ub
                     /\ Text(e2) = Text(e)
                     /\ e2.cursor = e.cursor
                     /\ e2.sel_anchor = e.sel_anchor /\ e2.sel_active = e.sel_active
                     /\ e2.undo_stack = e.undo_stack /\ e2.redo_stack = e.redo_stack
                ELSE /\ ~e2.ub
                     /\ e2.pushed = 1
                     /\ e2.undo_stack[undo_top(e2)] = Text(e)
                     /\ Text(e2) = SubSeq(Text(e), 1, a) \o f
                                       \o SubSeq(Text(e), b + 1, Len(Text(e)))
                     /\ e2.cursor = a + Len(f)
                     /\ e2.sel_anchor = e2.sel_active))))

\* C27 (auto-mirror): with auto_copy_primary set, after a select-all intent
\* from the keyboard or the context menu the text owned for PRIMARY is the
\* selected substring, or nothing is owned when the selection is empty; the
\* text and both history stacks are as before.
C27_AutoMirror ==
    [][(/\ last'.op \in {"select_all", MenuItems[4]}
        /\ Alive /\ Alive' /\ e.is_focused /\ e.auto_copy_primary)
          => /\ Text(e') = Text(e)
             /\ e'.undo_stack = e.undo_stack /\ e'.redo_stack = e.redo_stack
             /\ IF e'.sel_anchor = e'.sel_active
                THEN ctx'.data[SELECTION_PRIMARY].text = NULL
                ELSE /\ ctx'.data[SELECTION_PRIMARY].owner_window = e.win
                     /\ ctx'.data[SELECTION_PRIMARY].text =
                            SubSeq(Text(e'), Min(e'.sel_anchor, e'.sel_active) + 1,
                                   Min(Max(e'.sel_anchor, e'.sel_active), Len(Text(e'))))]_vars

\* the event just handled resolved one paste of the entry with text
PasteResolved(calls) ==
    /\ Len(calls) = 1
    /\ calls[1].callback = "paste_callback"
    /\ calls[1].text # NULL

\* C28 (paste/keystroke ordering): when the transfer-ready event of a paste
\* is handled, the edits delivered since the request are already in the
\* text and stay there, and the pasted text replaces the selection, or goes
\* in at the cursor, as they are when the event is handled.
C28_PasteOrdering ==
    [][(last'.op = "event" /\ PasteResolved(last'.calls) /\ Alive /\ Alive'
        /\ e.max_length = 0 /\ Survivors(e, last'.calls[1].text) # <<>>)
          => Let(Survivors(e, last'.calls[1].text), LAMBDA f :
             Let(IF e.sel_anchor # e.sel_active
                 THEN Min(e.sel_anchor, e.sel_active) ELSE e.cursor, LAMBDA a :
             Let(IF e.sel_anchor # e.sel_active
                 THEN Max(e.sel_anchor, e.sel_active) ELSE e.cursor, LAMBDA b :
                 /\ Text(e') = SubSeq(Text(e), 1, a) \o f
                                   \o SubSeq(Text(e), b + 1, Len(Text(e)))
                 /\ e'.cursor = a + Len(f))))]_vars

\* C29 (cut): Ctrl+X with an empty selection changes nothing, neither the
\* selections nor the history nor the text; with a selection both
\* selections get the selected substring, exactly one snapshot of the
\* text before the cut is pushed, the selected range is removed and
\* cursor = sel_anchor = sel_active = the lower bound of the selection.
C29_Cut ==
    [][(last'.op = "cut" /\ Alive /\ e.is_focused) =>
        /\ Alive'
        /\ IF e.sel_anchor = e.sel_active
           THEN /\ ctx' = ctx /\ x' = x
                /\ Text(e') = Text(e)
                /\ e'.cursor = e.cursor
                /\ e'.undo_stack = e.undo_stack /\ e'.redo_stack = e.redo_stack
           ELSE Let(Min(e.sel_anchor, e.sel_active), LAMBDA a :
                Let(Min(Max(e.sel_anchor, e.sel_active), Len(Text(e))), LAMBDA b :
                    /\ \A type \in SelectionTypes :
                           ctx'.data[type].text = SubSeq(Text(e), a + 1, b)
                    /\ e'.pushed = 1
                    /\ e'.undo_stack[undo_top(e')] = Text(e)
                    /\ Text(e') = SubSeq(Text(e), 1, a) \o SubSeq(Text(e), b + 1, Len(Text(e)))
                    /\ e'.cursor = a /\ e'.sel_anchor = a /\ e'.sel_active = a))]_vars

\* C30 (valid commit): a commit, by Enter or by loss of focus, of a text that
\* parses to a colour other than the committed one sets the entry's
\* validation state to the valid flash, makes that colour the committed one
\* and rewrites the entries from it exactly once.
C30_ValidCommit ==
    [][(/\ \/ last'.op = "commit" /\ e.is_focused
           \/ last'.op = "focus_out"
        /\ Alive /\ Alive'
        /\ parse_hex(Text(e)) \notin {<<>>, app.current_rgb8})
          => /\ e'.validation_state = 2
             /\ app'.current_rgb8 = parse_hex(Text(e))
             /\ app'.shown = parse_hex(Text(e))
             /\ app'.propagated = 1
             /\ Text(e') = format_hex(parse_hex(Text(e)), e.hex_uppercase)]_vars

\* the loss of focus has just committed a colour other than the initial one
C30_Witness ==
    /\ Alive
    /\ last.op = "focus_out"
    /\ app.propagated = 1
    /\ e.validation_state = 2
    /\ app.current_rgb8 # AppInit.current_rgb8
    /\ app.shown = app.current_rgb8
    /\ Text(e) = format_hex(app.current_rgb8, e.hex_uppercase)

\* C31 (idempotent commit): a commit, by Enter or by loss of focus, of a text
\* that parses to the colour already committed changes nothing: not the
\* validation state, not the committed colour, not the text of an entry and
\* not the selections.
C31_IdempotentCommit ==
    [][(/\ \/ last'.op = "commit" /\ e.is_focused
           \/ last'.op = "focus_out"
        /\ Alive /\ Alive'
        /\ Text(e) # <<>>
        /\ parse_hex(Text(e)) = app.current_rgb8)
          => /\ e'.validation_state = e.validation_state
             /\ app'.current_rgb8 = app.current_rgb8
             /\ app'.shown = app.shown
             /\ app'.propagated = 0
             /\ Text(e') = Text(e)
             /\ e'.undo_stack = e.undo_stack /\ e'.redo_stack = e.redo_stack
             /\ ctx' = ctx /\ x' = x]_vars

\* the loss of focus has just committed, once more, a colour committed before
C31_Witness ==
    /\ Alive
    /\ last.op = "focus_out"
    /\ e.changed = 1
    /\ app.propagated = 0
    /\ e.validation_state = 2
    /\ app.current_rgb8 # AppInit.current_rgb8
    /\ parse_hex(Text(e)) = app.current_rgb8

\* the SelectionNotify naming property p has been sent in answer to ev
Answered(ev, p) ==
    IF ev.window = Ext THEN x'.ext.notify = p
    ELSE x'.evq = Append(Tail(x.evq),
                         SelectionNotify(ev.window, ev.selection, ev.target, p))

\* the transfer properties are as they were
NothingWritten == x'.prop = x.prop /\ x'.ext.prop = x.ext.prop

\* property ev.property of the requestor holds data of the given type
Written(ev, type, data) ==
    IF ev.window = Ext
    THEN x'.prop = x.prop /\ x'.ext.prop.type = type /\ x'.ext.prop.data = data
    ELSE /\ x'.ext.prop = x.ext.prop
         /\ x'.prop[ev.window].type = type /\ x'.prop[ev.window].data = data
         /\ \A win \in Windows \ {ev.window} : x'.prop[win] = x.prop[win]

\* C32 (responder): a SelectionRequest is answered with a refusal, and no
\* property is written, when this process holds no text for the selection
\* or the requestor is the window that owns it; otherwise TARGETS is answered
\* with the list of targets, UTF8_STRING and STRING with the text that is
\* held, and any other target with a refusal.  The selection data, the
\* owners and the pending requests are not touched.
C32_Responder ==
    [][(/\ Alive /\ x.evq # <<>> /\ Head(x.evq).type = "SelectionRequest"
        /\ last'.op = "event")
          => Let(Head(x.evq), LAMBDA ev :
              Let(ctx.data[ev.selection], LAMBDA data :
                /\ ctx' = ctx /\ x'.owner = x.owner /\ last'.calls = <<>>
                /\ IF data.text = NULL \/ ev.window = data.owner_window
                   THEN Answered(ev, None) /\ NothingWritten
                   ELSE IF ev.target = TARGETS
                   THEN /\ Answered(ev, ev.property)
                        /\ Written(ev, XA_ATOM, <<TARGETS, UTF8_STRING, XA_STRING>>)
                   ELSE IF ev.target \in {UTF8_STRING, XA_STRING}
                   THEN /\ Answered(ev, ev.property)
                        /\ Written(ev, ev.target, data.text)
                   ELSE Answered(ev, None) /\ NothingWritten))]_vars

\* the other application has been handed the text of a selection
C32_Witness ==
    /\ Alive
    /\ last.op = "event"
    /\ x.ext.notify = "EXT_PROPERTY"
    /\ x.ext.prop.type = XA_STRING
    /\ x.ext.prop.data = <<35>>
    /\ ctx.data[SELECTION_CLIPBOARD].text = <<35>>

\* the selection that is not type
OtherSelection(type) == CHOOSE t \in SelectionTypes : t # type

\* C33 (set_text): clipboard_set_text with a text leaves a copy of it and
\* the window in the selection's record and makes the window the owner of
\* the selection; without a text it clears the record and gives the
\* selection up.  Either way the other selection, its owner and the pending
\* requests stay as they are and no callback runs.
C33_SetText ==
    Alive =>
      \A win \in Windows, type \in SelectionTypes, c \in SetCalls :
        Let(clipboard_set_text(W0("crash"), win, c[2], type), LAMBDA w2 :
          /\ IF c[2] # NULL
             THEN /\ w2.ctx.data[type] = [text |-> c[2], owner_window |-> win]
                  /\ w2.x.owner[type] = win
             ELSE /\ w2.ctx.data[type] = [text |-> NULL, owner_window |-> None]
                  /\ w2.x.owner[type] = None
          /\ w2.ctx.data[OtherSelection(type)] = ctx.data[OtherSelection(type)]
          /\ w2.x.owner[OtherSelection(type)] = x.owner[OtherSelection(type)]
          /\ w2.ctx.requests = ctx.requests
          /\ w2.calls = <<>>
          /\ w2.e = W0("crash").e)

\* PRIMARY has just been given up while CLIPBOARD is held and a request is
\* pending
C33_Witness ==
    /\ Alive
    /\ last.op = "clip_set"
    /\ ctx.data[SELECTION_PRIMARY] = [text |-> NULL, owner_window |-> None]
    /\ x.owner[SELECTION_PRIMARY] = None
    /\ ctx.data[SELECTION_CLIPBOARD].text # NULL
    /\ x.owner[SELECTION_CLIPBOARD] = ctx.data[SELECTION_CLIPBOARD].owner_window
    /\ Pending(ctx) # {}
    /\ \E k \in 1..Len(x.evq) : x.evq[k].type = "SelectionClear"

\* C34 (ownership lost): handling SelectionClear for a selection clears the
\* text and the owner window of that selection's record and nothing else:
\* the other selection's record, every pending request, the X owners and
\* the transfer properties stay, and no callback runs.
C34_OwnershipLost ==
    [][(/\ Alive /\ x.evq # <<>> /\ Head(x.evq).type = "SelectionClear"
        /\ last'.op = "event")
          => Let(Head(x.evq).selection, LAMBDA sel :
                /\ ctx'.data[sel] = [text |-> NULL, owner_window |-> None]
                /\ ctx'.data[OtherSelection(sel)] = ctx.data[OtherSelection(sel)]
                /\ ctx'.requests = ctx.requests
                /\ x'.owner = x.owner /\ x'.prop = x.prop /\ x'.convs = x.convs
                /\ x'.evq = Tail(x.evq)
                /\ last'.calls = <<>>
                /\ e' = e)]_vars

\* CLIPBOARD has just been lost while PRIMARY is held and a request is pending
C34_Witness ==
    /\ Alive
    /\ last.op = "event" /\ last.calls = <<>>
    /\ ctx.data[SELECTION_CLIPBOARD] = [text |-> NULL, owner_window |-> None]
    /\ x.owner[SELECTION_CLIPBOARD] = Ext
    /\ ctx.data[SELECTION_PRIMARY].text # NULL
    /\ x.owner[SELECTION_PRIMARY] = ctx.data[SELECTION_PRIMARY].owner_window
    /\ Pending(ctx) # {}
    /\ x.evq = <<>>

\* the SelectionNotify at the head of the queue names a property and meets
\* a pending request
PayloadReady ==
    /\ Alive /\ x.evq # <<>>
    /\ Head(x.evq).type = "SelectionNotify"
    /\ Head(x.evq).property # None
    /\ find_request(ctx, Head(x.evq).window, Head(x.evq).property) # 0

\* C35 (transfer-ready payload): for a SelectionNotify that names a property
\* and meets a pending request, with the property read successfully, a
\* payload of type INCR resolves the request with no data and the property
\* is deleted; one of type UTF8_STRING or STRING resolves it with the text;
\* one of any other type resolves it with no data.  The request's callback
\* is called once, the request is inactive afterwards and the other
\* requests are as before.
C35_Payload ==
    PayloadReady =>
      Let(Head(x.evq), LAMBDA ev :
       Let(find_request(ctx, ev.window, ev.property), LAMBDA req :
        Let(XGetWindowProperty(x, ev.window, ev.property), LAMBDA p :
         Let(handle_selection_notify([W0("crash") EXCEPT !.x.evq = Tail(@)], ev, 0),
             LAMBDA w2 :
          /\ w2.calls = << [callback |-> ctx.requests[req].callback,
                            text |-> IF p.type \in {UTF8_STRING, XA_STRING}
                                     THEN p.data ELSE NULL,
                            user_data |-> ctx.requests[req].user_data,
                            slot |-> req] >>
          /\ ~w2.ctx.requests[req].active
          /\ \A i \in 1..MAX_PENDING_REQUESTS \ {req} :
                 w2.ctx.requests[i] = ctx.requests[i]
          /\ w2.ctx.data = ctx.data
          /\ p.type = INCR => w2.x.prop[ev.window] = NoProp
          /\ w2.x.owner = x.owner))))

\* the answer at the head of the queue announces an incremental transfer
C35_Witness ==
    /\ PayloadReady
    /\ XGetWindowProperty(x, Head(x.evq).window, Head(x.evq).property).type = INCR

\* a flash is on that began at clock reading t
FlashAt(t) == e.validation_state # 0 /\ e.validation_flash_start = t

\* C36 (flash timing): a flash that began early enough for the clock to
\* outlast it is always eventually over, or replaced by the flash of a later
\* commit; the timer pass ends the invalid flash no sooner than 150 ms and
\* the valid flash no sooner than 500 ms after it began; and neither the
\* timer pass nor the start of the valid flash changes the text or the
\* history of the entry or the colour shown.
C36_FlashTiming ==
    /\ \A t \in {1, 1 + TickMs} : FlashAt(t) ~> ~FlashAt(t)
    /\ [][last'.op = "timers" /\ Alive /\ Alive'
            => /\ Text(e') = Text(e)
               /\ e'.undo_stack = e.undo_stack /\ e'.redo_stack = e.redo_stack
               /\ e'.cursor = e.cursor
               /\ app'.shown = app.shown /\ app'.current_rgb8 = app.current_rgb8
               /\ e'.validation_state # e.validation_state
                    => /\ e'.validation_state = 0
                       /\ app.now - e.validation_flash_start >=
                            (IF e.validation_state = 1 THEN FLASH_INVALID_MS
                             ELSE FLASH_VALID_MS)]_vars
    /\ [](Alive => Text(validate_entry_flash_valid(W0("crash")).e) = Text(e))

\* the timer pass has just ended a valid flash that began after the clock
\* had moved
C36_Witness ==
    /\ Alive
    /\ last.op = "timers"
    /\ e.validation_state = 0
    /\ e.validation_flash_start = 1 + TickMs
    /\ app.now = 1 + TickMs + FLASH_VALID_MS
    /\ app.current_rgb8 # AppInit.current_rgb8

\* the lower and the upper end of what a typed character replaces: the
\* selection, or the cursor when nothing is selected
ReplacedFrom == IF e.sel_anchor # e.sel_active THEN Min(e.sel_anchor, e.sel_active)
                ELSE e.cursor
ReplacedTo == IF e.sel_anchor # e.sel_active THEN Max(e.sel_anchor, e.sel_active)
              ELSE e.cursor

\* the typed character as the entry's kind stores it
norm(ch) ==
    IF e.kind = ENTRY_HEX /\ isxdigit(ch)
    THEN (IF e.hex_uppercase THEN toupper(ch) ELSE tolower(ch))
    ELSE ch

\* C37 (accepted typed character): a typed character that passes validation
\* while the text less the selection is shorter than max_length (or no
\* max_length is set) gives the text with the selection removed and the
\* normalised character in its place, the cursor right after it, and
\* exactly one snapshot, of the text before, pushed on the undo stack.
C37_AcceptedChar ==
    \A ch \in Keys :
        (/\ Alive
         /\ validate_char(e, ch) # -1
         /\ \/ e.max_length = 0
            \/ Len(Text(e)) - (ReplacedTo - ReplacedFrom) < e.max_length)
          => Let(insert_char(W0("crash").e, ch), LAMBDA e2 :
                /\ ~e2.ub
                /\ e2.pushed = 1
                /\ e2.undo_stack[undo_top(e2)] = Text(e)
                /\ Text(e2) = SubSeq(Text(e), 1, ReplacedFrom) \o <<norm(ch)>>
                                  \o SubSeq(Text(e), ReplacedTo + 1, Len(Text(e)))
                /\ e2.cursor = ReplacedFrom + 1)

\* the entry of w has the text and the stacks of the current state
SameTextAndHistory(w) ==
    /\ ~w.e.ub
    /\ Text(w.e) = Text(e)
    /\ w.e.undo_stack = e.undo_stack
    /\ w.e.redo_stack = e.redo_stack

\* C38 (undo/redo inverse): from a state with a snapshot on the undo stack,
\* undo followed by redo gives back the text and both stacks; from a state
\* with a snapshot on the redo stack, so does redo followed by undo.
C38_UndoRedoInverse ==
    Alive =>
      /\ undo_top(e) > 0 => SameTextAndHistory(do_redo(do_undo(W0("crash"))))
      /\ redo_top(e) > 0 => SameTextAndHistory(do_undo(do_redo(W0("crash"))))

\* C39 (history stacks never overflow): in every reachable state of an
\* entry with undo_depth >= 1 the two stacks together hold at most
\* undo_depth snapshots, so each holds at most its capacity and the pushes
\* that undo and redo make without a test land inside the arrays.
C39_StacksBounded ==
    /\ ~e.ub
    /\ e.undo_capacity >= 1
    /\ undo_top(e) >= 0 /\ redo_top(e) >= 0
    /\ undo_top(e) + redo_top(e) <= e.undo_capacity
    /\ undo_top(e) <= e.undo_capacity /\ redo_top(e) <= e.redo_capacity

\* an undo has just filled the redo stack
C39_Witness ==
    /\ Alive
    /\ last.op = "undo"
    /\ redo_top(e) = e.redo_capacity
    /\ undo_top(e) = 0

\* C40 (degenerate capacity): in an entry created with undo_depth 0 a
\* history push retains nothing and stays inside the stack arrays: it meets
\* no undefined behaviour, and undo_top stays between 0 and the capacity.
C40_DegenerateCapacity ==
    (Alive /\ e.undo_capacity = 0) =>
        Let(undo_push(W0("crash").e), LAMBDA e2 :
            /\ ~e2.ub
            /\ e2.undo_stack = <<>>
            /\ undo_top(e2) >= 0 /\ undo_top(e2) <= e2.undo_capacity)

====
